---------------------------- MODULE Spec2Model ----------------------------
(***************************************************************************)
(* Model of the boiler dashboard: the boiler calculation pipeline          *)
(* (furnace, heatTransfer, steamGeneration, generateFlueGases, boiler) of  *)
(* lib/boilerModel.ts and the page that calls it.                          *)
(*                                                                         *)
(* TypeScript's `number` is an IEEE-754 binary64 value.  The first part of *)
(* the module is that arithmetic: a number is a record                     *)
(*     [k, neg, m, e]   k = "num": (-1)^neg * m * 2^e, m odd or zero       *)
(*                      k = "inf": (-1)^neg * Infinity                     *)
(*                      k = "nan": NaN                                     *)
(* where the magnitude m is an unbounded natural kept as a little-endian   *)
(* sequence of limbs, and every operation rounds to nearest, ties to even, *)
(* to 53 significant bits, with gradual underflow and overflow to          *)
(* Infinity.                                                               *)
(***************************************************************************)
EXTENDS Integers, Sequences, FiniteSets, TLC

(***************************************************************************)
(* The binary64 format of `number`.                                        *)
(***************************************************************************)
LimbBits == 14
Precision == 53
MinExp == -1074
MaxExp == 1023

Base == 2^LimbBits

(***************************************************************************)
(* Evaluation order.  The language evaluates an argument once, before the  *)
(* call, and a const once, where it is declared.  Val1 and Val2 do the     *)
(* same: F is applied to the values of the expressions, not to the         *)
(* expressions.  The arithmetic below binds a value v of an expression e   *)
(* in the same way, written out as  CHOOSE r \in {... v ... : v \in {e}}.  *)
(***************************************************************************)
Val1(e1, F(_)) == CHOOSE r \in {F(v1) : v1 \in {e1}} : TRUE
Val2(e1, e2, F(_, _)) == CHOOSE r \in {F(v1, v2) : v1 \in {e1}, v2 \in {e2}} : TRUE

(***************************************************************************)
(* Naturals of any size: little-endian limb sequences without a leading    *)
(* (last) zero limb; <<>> is zero.                                         *)
(***************************************************************************)
Limb(a, i) == IF i <= Len(a) THEN a[i] ELSE 0

\* a without its leading zero limbs
BNorm(a0) ==
  CHOOSE r \in {SubSeq(a, 1, CHOOSE k \in 0..Len(a) :
                               /\ k = 0 \/ a[k] # 0
                               /\ \A j \in (k + 1)..Len(a) : a[j] = 0) :
                a \in {a0}} : TRUE

\* a natural below Base^3
BFromNat(n) ==
  IF n = 0 THEN <<>>
  ELSE IF n < Base THEN <<n>>
  ELSE IF n < Base * Base THEN <<n % Base, n \div Base>>
  ELSE <<n % Base, (n \div Base) % Base, n \div (Base * Base)>>

\* the limbs of a sum whose limb sums are sum0: the carry into limb i comes from
\* a lower limb whose sum overflows, through limbs whose sums are all Base - 1
Carried(sum0) ==
  CHOOSE r \in {[i \in 1..Len(sum) |->
                  (sum[i] + IF \E j \in 1..(i - 1) :
                                 /\ sum[j] >= Base
                                 /\ \A l \in (j + 1)..(i - 1) : sum[l] = Base - 1
                            THEN 1 ELSE 0) % Base] :
                sum \in {sum0}} : TRUE

\* a + b
BAdd(a0, b0) ==
  CHOOSE r \in {BNorm(Carried([i \in 1..((IF Len(a) > Len(b) THEN Len(a)
                                                             ELSE Len(b)) + 1) |->
                                 Limb(a, i) + Limb(b, i)])) :
                a \in {a0}, b \in {b0}} : TRUE

\* a - b for a >= b; the borrow out of limb i comes from a lower limb of a that
\* is smaller than b's, through limbs that are equal
BSub(a0, b0) ==
  CHOOSE r \in {BNorm([i \in 1..Len(a) |->
                         (a[i] - Limb(b, i) + Base
                          - IF \E j \in 1..(i - 1) :
                                 /\ a[j] < Limb(b, j)
                                 /\ \A l \in (j + 1)..(i - 1) : a[l] = Limb(b, l)
                            THEN 1 ELSE 0) % Base]) :
                a \in {a0}, b \in {b0}} : TRUE

\* -1, 0, 1 as a < b, a = b, a > b: decided by the lengths, then by the highest
\* limb in which they differ
BCmp(a0, b0) ==
  CHOOSE r \in {IF Len(a) < Len(b) THEN -1
                ELSE IF Len(a) > Len(b) THEN 1
                ELSE IF a = b THEN 0
                ELSE IF \E i \in 1..Len(a) :
                          /\ a[i] < b[i]
                          /\ \A j \in (i + 1)..Len(a) : a[j] = b[j]
                     THEN -1 ELSE 1 :
                a \in {a0}, b \in {b0}} : TRUE

\* a * k for 0 <= k <= Base: the low limbs of the products a[i] * k plus their
\* high limbs one place up
BMulSmall(a0, k) ==
  CHOOSE r \in {BAdd([i \in 1..Len(a) |-> (a[i] * k) % Base],
                     <<0>> \o [i \in 1..Len(a) |-> (a[i] * k) \div Base]) :
                a \in {a0}} : TRUE

BShlLimbs(a0, n) ==
  CHOOSE r \in {IF a = <<>> THEN a ELSE [i \in 1..n |-> 0] \o a : a \in {a0}} : TRUE

\* a * b; acc[i] is the product of b and the limbs of a above the i-th
BMul(a0, b0) ==
  CHOOSE r \in {LET acc[i \in 0..Len(a)] ==
                      IF i = Len(a) THEN <<>>
                      ELSE BAdd(BShlLimbs(BMulSmall(b, a[i + 1]), i), acc[i + 1])
                IN  acc[0] :
                a \in {a0}, b \in {b0}} : TRUE

SmallBitLen(k) == CHOOSE n \in 0..LimbBits : k < 2^n /\ (n = 0 \/ k >= 2^(n - 1))

BitLen(a) ==
  IF a = <<>> THEN 0 ELSE LimbBits * (Len(a) - 1) + SmallBitLen(a[Len(a)])

\* a * 2^n
BShl(a, n) == BShlLimbs(BMulSmall(a, 2^(n % LimbBits)), n \div LimbBits)

\* floor(a / 2^n)
BShr(a0, n) ==
  CHOOSE r \in {IF n \div LimbBits >= Len(a) THEN <<>>
                ELSE BNorm([i \in 1..(Len(a) - n \div LimbBits) |->
                              (a[i + n \div LimbBits] \div 2^(n % LimbBits))
                              + (Limb(a, i + n \div LimbBits + 1) % 2^(n % LimbBits))
                                * 2^(LimbBits - (n % LimbBits))]) :
                a \in {a0}} : TRUE

\* a mod 2^n
BLow(a0, n) ==
  CHOOSE r \in {IF n \div LimbBits >= Len(a) THEN a
                ELSE BNorm([i \in 1..(n \div LimbBits + 1) |->
                              IF i <= n \div LimbBits THEN a[i]
                              ELSE a[i] % 2^(n % LimbBits)]) :
                a \in {a0}} : TRUE

BIsOdd(a) == a # <<>> /\ a[1] % 2 = 1

\* the number of trailing zero bits of a # 0
SmallTz(k) == CHOOSE n \in 0..LimbBits : k % 2^n = 0 /\ (k \div 2^n) % 2 = 1

BTz(a) ==
  CHOOSE tz \in 0..(LimbBits * Len(a)) :
    /\ a[tz \div LimbBits + 1] # 0
    /\ \A j \in 1..(tz \div LimbBits) : a[j] = 0
    /\ tz % LimbBits = SmallTz(a[tz \div LimbBits + 1])

(***************************************************************************)
(* Long division in base Base by d, whose top limb has its top bit set.    *)
(* A step takes st = <<quotient, remainder>> and the next lower limb of    *)
(* the dividend.  The quotient limb is estimated from the two top limbs of *)
(* the running remainder r2 and is then at most 2 too large.               *)
(***************************************************************************)
BDivEstimate(d, r2) ==
  (Limb(r2, Len(d) + 1) * Base + Limb(r2, Len(d))) \div d[Len(d)]

BDivLimb(d, r2) ==
  CHOOSE r \in {IF BCmp(BMulSmall(d, est), r2) <= 0 THEN est
                ELSE IF BCmp(BMulSmall(d, est - 1), r2) <= 0 THEN est - 1
                ELSE est - 2 :
                est \in {IF BDivEstimate(d, r2) > Base - 1 THEN Base - 1
                         ELSE BDivEstimate(d, r2)}} : TRUE

BDivTake(d, quot, r2, c0) ==
  CHOOSE r \in {<<BNorm(<<c>> \o quot), BSub(r2, BMulSmall(d, c))>> :
                c \in {c0}} : TRUE

BDivRemainder(d, quot, r0) ==
  CHOOSE r \in {BDivTake(d, quot, r2, BDivLimb(d, r2)) : r2 \in {r0}} : TRUE

BDivStep(limb, d, st0) ==
  CHOOSE r \in {BDivRemainder(d, st[1], BNorm(<<limb>> \o st[2])) :
                st \in {st0}} : TRUE

\* <<floor(n / d), n mod d>> for such a d: the top Len(d) - 1 limbs of n are
\* below d and start as the remainder; st[i] is the state after the limbs of n
\* from the i-th up
BDivLimbs(n0, d0) ==
  CHOOSE r \in {IF Len(n) < Len(d) THEN <<(<<>>), n>>
                ELSE LET st[i \in 1..(Len(n) - Len(d) + 2)] ==
                           IF i = Len(n) - Len(d) + 2
                           THEN <<(<<>>), BNorm(SubSeq(n, i, Len(n)))>>
                           ELSE BDivStep(n[i], d, st[i + 1])
                     IN  st[1] :
                n \in {n0}, d \in {d0}} : TRUE

\* <<floor(n / d), n mod d # 0>> for d # 0: both are scaled so that the top limb
\* of the divisor has its top bit set
BDivScaled(n, d, sh) ==
  CHOOSE r \in {<<qr[1], qr[2] # <<>> >> :
                qr \in {BDivLimbs(BShl(n, sh), BShl(d, sh))}} : TRUE

BDiv(n, d) == BDivScaled(n, d, (LimbBits - (BitLen(d) % LimbBits)) % LimbBits)

\* a natural below Base^2 as an integer
BToNat(a) == IF a = <<>> THEN 0 ELSE IF Len(a) = 1 THEN a[1] ELSE a[1] + Base * a[2]

\* the natural written in decimal as groups of four digits, most significant first
BFromGroups(g) ==
  LET acc[i \in 0..Len(g)] ==
        IF i = 0 THEN <<>>
        ELSE BAdd(BMulSmall(acc[i - 1], 10000), BFromNat(g[i]))
  IN  acc[Len(g)]

(***************************************************************************)
(* IEEE-754 binary64 values and operations.                                *)
(***************************************************************************)
Zero(neg) == [k |-> "num", neg |-> neg, m |-> <<>>, e |-> 0]
Inf(neg) == [k |-> "inf", neg |-> neg, m |-> <<>>, e |-> 0]
NaN == [k |-> "nan", neg |-> FALSE, m |-> <<>>, e |-> 0]

IsNaN(x) == x.k = "nan"
IsInf(x) == x.k = "inf"
IsFinite(x) == x.k = "num"
IsZero(x) == x.k = "num" /\ x.m = <<>>

\* (-1)^neg * M * 2^e, exactly representable, in canonical form
CanonOdd(neg, m0, e) ==
  CHOOSE r \in {IF BitLen(m) + e - 1 > MaxExp THEN Inf(neg)
                ELSE [k |-> "num", neg |-> neg, m |-> m, e |-> e] :
                m \in {m0}} : TRUE

Canon(neg, M0, e) ==
  CHOOSE r \in {IF M = <<>> THEN Zero(neg)
                ELSE CanonOdd(neg, BShr(M, BTz(M)), e + BTz(M)) :
                M \in {M0}} : TRUE

\* the binary64 value nearest to (-1)^neg * (N + t) * 2^e, ties to even, where
\* 0 < t < 1 when sticky and t = 0 otherwise: N loses its s low bits, which are
\* compared with half a unit of the bit above them
RoundUp(q0, c0, sticky) ==
  CHOOSE r \in {IF c > 0 \/ (c = 0 /\ (sticky \/ BIsOdd(q))) THEN BAdd(q, <<1>>)
                ELSE q :
                q \in {q0}, c \in {c0}} : TRUE

RoundAt(neg, N, e, sticky, s0) ==
  CHOOSE r \in {IF s <= 0 THEN Canon(neg, N, e)
                ELSE Canon(neg,
                           RoundUp(BShr(N, s),
                                   BCmp(BLow(N, s), BShl(<<1>>, s - 1)), sticky),
                           e + s) :
                s \in {s0}} : TRUE

Round(neg, N0, e, sticky) ==
  CHOOSE r \in {RoundAt(neg, N, e, sticky,
                        IF BitLen(N) - Precision > MinExp - e
                        THEN BitLen(N) - Precision ELSE MinExp - e) :
                N \in {N0}} : TRUE

FNeg(x) == IF IsNaN(x) THEN x ELSE [x EXCEPT !.neg = ~x.neg]

FMul(a0, b0) ==
  CHOOSE r \in {IF IsNaN(a) \/ IsNaN(b) THEN NaN
                ELSE IF IsInf(a) \/ IsInf(b)
                THEN (IF IsZero(a) \/ IsZero(b) THEN NaN ELSE Inf(a.neg # b.neg))
                ELSE Round(a.neg # b.neg, BMul(a.m, b.m), a.e + b.e, FALSE) :
                a \in {a0}, b \in {b0}} : TRUE

\* big + small for nonzero finite numbers where small lies wholly below the
\* last of the Precision + 3 leading bits of big: small only decides the
\* rounding direction
FarShift(big) == Precision + 3 - BitLen(big.m)

IsFar(big, small) == small.e + BitLen(small.m) <= big.e - FarShift(big)

FAddFar(big, small) ==
  Round(big.neg,
        IF big.neg = small.neg THEN BShl(big.m, FarShift(big))
        ELSE BSub(BShl(big.m, FarShift(big)), <<1>>),
        big.e - FarShift(big), TRUE)

\* a + b for nonzero finite numbers with magnitudes A * 2^e and B * 2^e
FAddAligned(a, b, A0, B0, e) ==
  CHOOSE r \in {IF a.neg = b.neg THEN Round(a.neg, BAdd(A, B), e, FALSE)
                ELSE IF BCmp(A, B) = 0 THEN Zero(FALSE)
                ELSE IF BCmp(A, B) > 0 THEN Round(a.neg, BSub(A, B), e, FALSE)
                ELSE Round(b.neg, BSub(B, A), e, FALSE) :
                A \in {A0}, B \in {B0}} : TRUE

FAddNear(a, b, e) == FAddAligned(a, b, BShl(a.m, a.e - e), BShl(b.m, b.e - e), e)

FAdd(a0, b0) ==
  CHOOSE r \in {IF IsNaN(a) \/ IsNaN(b) THEN NaN
                ELSE IF IsInf(a) THEN (IF IsInf(b) /\ a.neg # b.neg THEN NaN ELSE a)
                ELSE IF IsInf(b) THEN b
                ELSE IF IsZero(a) /\ IsZero(b) THEN Zero(a.neg /\ b.neg)
                ELSE IF IsZero(a) THEN b
                ELSE IF IsZero(b) THEN a
                ELSE IF IsFar(a, b) THEN FAddFar(a, b)
                ELSE IF IsFar(b, a) THEN FAddFar(b, a)
                ELSE FAddNear(a, b, IF a.e < b.e THEN a.e ELSE b.e) :
                a \in {a0}, b \in {b0}} : TRUE

FSub(a, b0) == CHOOSE r \in {FAdd(a, FNeg(b)) : b \in {b0}} : TRUE

\* a / b for nonzero finite numbers: the quotient of a.m * 2^sh by b.m has at
\* least Precision + 2 bits
FDivShifted(a, b, sh) ==
  CHOOSE r \in {Round(a.neg # b.neg, qs[1], a.e - b.e - sh, qs[2]) :
                qs \in {BDiv(BShl(a.m, sh), b.m)}} : TRUE

FDiv(a0, b0) ==
  CHOOSE r \in {IF IsNaN(a) \/ IsNaN(b) THEN NaN
                ELSE IF IsInf(a) THEN (IF IsInf(b) THEN NaN ELSE Inf(a.neg # b.neg))
                ELSE IF IsInf(b) THEN Zero(a.neg # b.neg)
                ELSE IF IsZero(b)
                THEN (IF IsZero(a) THEN NaN ELSE Inf(a.neg # b.neg))
                ELSE IF IsZero(a) THEN Zero(a.neg # b.neg)
                ELSE FDivShifted(a, b, Precision + 2 + BitLen(b.m) - BitLen(a.m)) :
                a \in {a0}, b \in {b0}} : TRUE

\* the number an integer literal n denotes
Num(n) == IF n < 0 THEN Canon(TRUE, BFromNat(-n), 0) ELSE Canon(FALSE, BFromNat(n), 0)

\* the number the decimal literal <groups> / 10^d denotes (groups: the digits in
\* fours, at most 2^53; d <= 22): the correctly rounded quotient
Dec(groups, d) ==
  FDiv(Canon(FALSE, BFromGroups(groups), 0),
       Canon(FALSE, BFromGroups([i \in 1..(d \div 4 + 1) |->
                                   IF i = 1 THEN 10^(d % 4) ELSE 0]), 0))

\* x === y as the language compares numbers: NaN equals nothing, -0 equals 0
FEq(x, y) == ~IsNaN(x) /\ ~IsNaN(y) /\ (x = y \/ (IsZero(x) /\ IsZero(y)))

\* x < y as the language compares numbers (false when either is NaN)
FLess(x, y) ==
  \E d \in {FSub(x, y)} :
    IF IsInf(x) /\ IsInf(y) THEN x.neg /\ ~y.neg
    ELSE ~IsNaN(d) /\ ~IsZero(d) /\ d.neg

\* Number.prototype.toFixed(2) of a finite x with |x| < 2^28 / 100, as the signed
\* count of hundredths: the integer n with n / 100 nearest to x, the larger on a tie
HundredthsOf(x, c0) ==
  CHOOSE r \in {IF x.e >= 0 THEN BToNat(BShl(c, x.e))
                ELSE BToNat(BShr(BAdd(BShl(c, 1), BShl(<<1>>, -x.e)), 1 - x.e)) :
                c \in {c0}} : TRUE

Hundredths(x0) ==
  CHOOSE r \in {IF x.neg THEN -HundredthsOf(x, BMulSmall(x.m, 100))
                ELSE HundredthsOf(x, BMulSmall(x.m, 100)) :
                x \in {x0}} : TRUE

\* Number.prototype.toFixed(1) of a finite x with |x| < 2^28 / 10, as the signed
\* count of tenths
Tenths(x0) ==
  CHOOSE r \in {IF x.neg THEN -HundredthsOf(x, BMulSmall(x.m, 10))
                ELSE HundredthsOf(x, BMulSmall(x.m, 10)) :
                x \in {x0}} : TRUE

\* x.toFixed(digits), digits 1 or 2, as the text it is for NaN and the
\* infinities and as the count of units of 10^-digits it shows otherwise
ToFixed(x0, digits) ==
  CHOOSE r \in {IF IsNaN(x) THEN [text |-> "NaN"]
                ELSE IF IsInf(x)
                THEN [text |-> IF x.neg THEN "-Infinity" ELSE "Infinity"]
                ELSE [text |-> "fixed", digits |-> digits,
                      units |-> IF digits = 1 THEN Tenths(x) ELSE Hundredths(x)] :
                x \in {x0}} : TRUE

(***************************************************************************)
(* lib/boilerModel.ts                                                      *)
(***************************************************************************)
\* the numeric literals of the module
N0_9 == Dec(<<9>>, 1)
N1_7 == Dec(<<17>>, 1)
N0_5 == Dec(<<5>>, 1)
N1_8 == Dec(<<18>>, 1)
N1_1 == Dec(<<11>>, 1)
N1_05 == Dec(<<105>>, 2)
MathPI == Dec(<<3141, 5926, 5358, 9793>>, 15)

\* an argument that is not passed
Undefined == [k |-> "undefined"]

\* const defaultParams: BoilerParams = { ... }
DefaultParamsInit ==
  [efficiency |-> N0_9,
   horsepower |-> [min |-> Num(50), max |-> Num(2500)],
   steamOutput |-> [min |-> Num(1725), max |-> Num(86250)],
   pressure |-> [min |-> Num(15), max |-> Num(350)],
   furnaceDesign |-> [corrugated |-> TRUE, type |-> "wet-back"],
   tubeConfig |-> [numTubes |-> Num(100), diameter |-> Num(2), length |-> Num(10)],
   refractory |-> [thermalConductivity |-> N0_5, maxTemp |-> Num(1200)],
   heatTransferCoeff |-> Num(50)]

\* calculateFlueGasVolume growing with the temperature of the air
calculateFlueGasVolumeWarm(fuel, air) ==
  FAdd(FMul(air.quantity, N0_9), air.temperature)

calculateFlueGasVolume(fuel, air) == FMul(air.quantity, N0_9)

calculateFlueGasComposition(fuel, air) ==
  [CO2 |-> Num(10), H2O |-> Num(15), O2 |-> Num(5), N2 |-> Num(70)]

calculateTubeSurfaceArea(tubeConfig) ==
  FMul(FMul(FMul(MathPI, tubeConfig.diameter), tubeConfig.length), tubeConfig.numTubes)

\* calculateSteamTemp with the coefficient of calculateSensibleHeat
calculateSteamTempSteep(pressure) == FAdd(Num(212), FMul(pressure, N1_8))

calculateSteamTemp(pressure) == FAdd(Num(212), FMul(pressure, N1_7))

\* getLatentHeat falling faster with the pressure
getLatentHeatSteep(pressure) == FSub(Num(970), FMul(pressure, Dec(<<6>>, 1)))

getLatentHeat(pressure) == FSub(Num(970), FMul(pressure, N0_5))

\* calculateSensibleHeat without the conversion of the inlet temperature
calculateSensibleHeatUnconverted(inletTemp, steamTemp) == FSub(steamTemp, inletTemp)

calculateSensibleHeat(inletTemp, steamTemp) ==
  FSub(steamTemp, FAdd(FMul(inletTemp, N1_8), Num(32)))

\* calculateEmissions with a figure per fuel
calculateEmissionsByFuel(fuelType) ==
  IF fuelType = "coal" THEN [CO |-> Num(250), NOx |-> Num(120)]
  ELSE [CO |-> Num(100), NOx |-> Num(50)]

calculateEmissions(fuelType) == [CO |-> Num(100), NOx |-> Num(50)]

\* furnace with a standing loss taken off the energy released
furnaceStandingLoss(fuel, air) ==
  Val1(FSub(FMul(fuel.quantity, fuel.heatContent), Num(50000)), LAMBDA energy :
    [energy |-> energy,
     flueGases |-> [volume |-> calculateFlueGasVolume(fuel, air), temp |-> Num(1100),
                    composition |-> calculateFlueGasComposition(fuel, air)]])

furnace(fuel, air) ==
  Val1(FMul(fuel.quantity, fuel.heatContent), LAMBDA energy :
  Val1(Num(1100), LAMBDA flueGasTemp :
  Val1(calculateFlueGasVolume(fuel, air), LAMBDA flueGasVolume :
  Val1(calculateFlueGasComposition(fuel, air), LAMBDA flueGasComposition :
    [energy |-> energy,
     flueGases |-> [volume |-> flueGasVolume, temp |-> flueGasTemp,
                    composition |-> flueGasComposition]]))))

\* heatTransfer with the two design factors applied to the heat transferred
heatTransferByDesign(combustionEnergy, flueGases, water, tubeConfig, heatTransferCoeff, furnaceDesign) ==
  Val2(IF furnaceDesign.corrugated THEN N1_1 ELSE Num(1),
       IF furnaceDesign.type = "wet-back" THEN N1_05 ELSE Num(1),
       LAMBDA furnaceFactor, wetBackFactor :
    [heatTransferred |-> FMul(FMul(FMul(combustionEnergy, N0_9), furnaceFactor),
                              wetBackFactor),
     flueGases |-> [volume |-> flueGases.volume, temp |-> Num(180)]])

\* heatTransfer with the heat of a pilot flame added
heatTransferPilot(combustionEnergy, flueGases, water, tubeConfig, heatTransferCoeff, furnaceDesign) ==
  [heatTransferred |-> FAdd(FMul(combustionEnergy, N0_9), Num(1000)),
   flueGases |-> [volume |-> flueGases.volume, temp |-> Num(180)]]

\* heatTransfer passing on eight tenths of the energy
heatTransferLossy(combustionEnergy, flueGases, water, tubeConfig, heatTransferCoeff, furnaceDesign) ==
  [heatTransferred |-> FMul(combustionEnergy, Dec(<<8>>, 1)),
   flueGases |-> [volume |-> flueGases.volume, temp |-> Num(180)]]

\* heatTransfer limited by what the tube surface can pass
heatTransferByArea(combustionEnergy, flueGases, water, tubeConfig, heatTransferCoeff, furnaceDesign) ==
  Val1(FMul(FMul(calculateTubeSurfaceArea(tubeConfig), heatTransferCoeff),
            FSub(flueGases.temp, Num(180))), LAMBDA passed :
  Val1(FMul(combustionEnergy, N0_9), LAMBDA offered :
    [heatTransferred |-> IF FLess(passed, offered) THEN passed ELSE offered,
     flueGases |-> [volume |-> flueGases.volume, temp |-> Num(180)]]))

heatTransfer(combustionEnergy, flueGases, water, tubeConfig, heatTransferCoeff, furnaceDesign) ==
  Val1(calculateTubeSurfaceArea(tubeConfig), LAMBDA tubeSurfaceArea :
  Val1(IF furnaceDesign.corrugated THEN N1_1 ELSE Num(1), LAMBDA furnaceFactor :
  Val1(IF furnaceDesign.type = "wet-back" THEN N1_05 ELSE Num(1),
       LAMBDA wetBackFactor :
  Val1(FMul(combustionEnergy, N0_9), LAMBDA heatTransferred :
  Val1(Num(180), LAMBDA flueGasExitTemp :
    [heatTransferred |-> heatTransferred,
     flueGases |-> [volume |-> flueGases.volume, temp |-> flueGasExitTemp]])))))

\* steamGeneration with the target pressure raised to its fourth argument
steamGenerationAtLeast(heatTransferred, water, controlSettings, pressure) ==
  Val1(IF FLess(controlSettings.pressure, pressure) THEN pressure
       ELSE controlSettings.pressure, LAMBDA targetPressure :
  Val1(calculateSteamTemp(targetPressure), LAMBDA steamTemp :
  Val1(getLatentHeat(targetPressure), LAMBDA latentHeat :
  Val1(calculateSensibleHeat(water.temperature, steamTemp), LAMBDA sensibleHeat :
  Val1(FAdd(sensibleHeat, latentHeat), LAMBDA totalHeatPerLb :
  Val1(FDiv(heatTransferred, totalHeatPerLb), LAMBDA steamOutput :
    [targetPressure |-> targetPressure, steamTemp |-> steamTemp,
     latentHeat |-> latentHeat, sensibleHeat |-> sensibleHeat,
     totalHeatPerLb |-> totalHeatPerLb, steamOutput |-> steamOutput,
     return |-> [flowRate |-> steamOutput, pressure |-> targetPressure,
                 temperature |-> steamTemp]]))))))

\* steamGeneration with the division guarded: no steam when it needs no heat
steamGenerationGuarded(heatTransferred, water, controlSettings, pressure) ==
  Val1(controlSettings.pressure, LAMBDA targetPressure :
  Val1(calculateSteamTemp(targetPressure), LAMBDA steamTemp :
  Val1(getLatentHeat(targetPressure), LAMBDA latentHeat :
  Val1(calculateSensibleHeat(water.temperature, steamTemp), LAMBDA sensibleHeat :
  Val1(FAdd(sensibleHeat, latentHeat), LAMBDA totalHeatPerLb :
  Val1(IF IsZero(totalHeatPerLb) THEN Num(0)
       ELSE FDiv(heatTransferred, totalHeatPerLb), LAMBDA steamOutput :
    [targetPressure |-> targetPressure, steamTemp |-> steamTemp,
     latentHeat |-> latentHeat, sensibleHeat |-> sensibleHeat,
     totalHeatPerLb |-> totalHeatPerLb, steamOutput |-> steamOutput,
     return |-> [flowRate |-> steamOutput, pressure |-> targetPressure,
                 temperature |-> steamTemp]]))))))

\* steamGeneration with the steam flow clamped at zero
steamGenerationClamped(heatTransferred, water, controlSettings, pressure) ==
  Val1(controlSettings.pressure, LAMBDA targetPressure :
  Val1(calculateSteamTemp(targetPressure), LAMBDA steamTemp :
  Val1(getLatentHeat(targetPressure), LAMBDA latentHeat :
  Val1(calculateSensibleHeat(water.temperature, steamTemp), LAMBDA sensibleHeat :
  Val1(FAdd(sensibleHeat, latentHeat), LAMBDA totalHeatPerLb :
  Val1(FDiv(heatTransferred, totalHeatPerLb), LAMBDA quotient :
  Val1(IF FLess(quotient, Num(0)) THEN Num(0) ELSE quotient, LAMBDA steamOutput :
    [targetPressure |-> targetPressure, steamTemp |-> steamTemp,
     latentHeat |-> latentHeat, sensibleHeat |-> sensibleHeat,
     totalHeatPerLb |-> totalHeatPerLb, steamOutput |-> steamOutput,
     return |-> [flowRate |-> steamOutput, pressure |-> targetPressure,
                 temperature |-> steamTemp]])))))))

\* steamGeneration and boiler are modelled by their frames: the locals when the
\* function returns, and the value it returns in the field "return"; the frame
\* of boiler has in "arguments" the objects it was passed as they are then
\* steamGeneration that counts the latent heat only
steamGenerationLatentOnly(heatTransferred, water, controlSettings, pressure) ==
  Val1(controlSettings.pressure, LAMBDA targetPressure :
  Val1(calculateSteamTemp(targetPressure), LAMBDA steamTemp :
  Val1(getLatentHeat(targetPressure), LAMBDA latentHeat :
  Val1(calculateSensibleHeat(water.temperature, steamTemp), LAMBDA sensibleHeat :
  Val1(latentHeat, LAMBDA totalHeatPerLb :
  Val1(FDiv(heatTransferred, totalHeatPerLb), LAMBDA steamOutput :
    [targetPressure |-> targetPressure, steamTemp |-> steamTemp,
     latentHeat |-> latentHeat, sensibleHeat |-> sensibleHeat,
     totalHeatPerLb |-> totalHeatPerLb, steamOutput |-> steamOutput,
     return |-> [flowRate |-> steamOutput, pressure |-> targetPressure,
                 temperature |-> steamTemp]]))))))

steamGeneration(heatTransferred, water, controlSettings, pressure) ==
  Val1(controlSettings.pressure, LAMBDA targetPressure :
  Val1(calculateSteamTemp(targetPressure), LAMBDA steamTemp :
  Val1(getLatentHeat(targetPressure), LAMBDA latentHeat :
  Val1(calculateSensibleHeat(water.temperature, steamTemp), LAMBDA sensibleHeat :
  Val1(FAdd(sensibleHeat, latentHeat), LAMBDA totalHeatPerLb :
  Val1(FDiv(heatTransferred, totalHeatPerLb), LAMBDA steamOutput :
    [targetPressure |-> targetPressure, steamTemp |-> steamTemp,
     latentHeat |-> latentHeat, sensibleHeat |-> sensibleHeat,
     totalHeatPerLb |-> totalHeatPerLb, steamOutput |-> steamOutput,
     return |-> [flowRate |-> steamOutput, pressure |-> targetPressure,
                 temperature |-> steamTemp]]))))))

\* generateFlueGases passing on the temperature of the gases it is given
generateFlueGasesUncooled(combustionEnergy, fuel, air, flueGasesFromFurnace) ==
  [flueGases |-> [volume |-> flueGasesFromFurnace.volume,
                  temp |-> flueGasesFromFurnace.temp,
                  composition |-> flueGasesFromFurnace.composition],
   emissions |-> calculateEmissions(fuel.type)]

generateFlueGases(combustionEnergy, fuel, air, flueGasesFromFurnace) ==
  Val1(flueGasesFromFurnace.volume, LAMBDA flueGasVolume :
  Val1(Num(180), LAMBDA flueGasTemp :
  Val1(flueGasesFromFurnace.composition, LAMBDA composition :
  Val1(calculateEmissions(fuel.type), LAMBDA emissions :
    [flueGases |-> [volume |-> flueGasVolume, temp |-> flueGasTemp,
                    composition |-> composition],
     emissions |-> emissions]))))

\* boiler with the steam raised from the usable heat
boilerUsableHeat(fuel, water, air, electricity, controlSettings, paramsArg, dp) ==
  Val1(IF paramsArg = Undefined THEN dp ELSE paramsArg, LAMBDA params :
  Val1(furnace(fuel, air), LAMBDA f :
  Val2(f.energy, f.flueGases, LAMBDA energy, initialFlueGases :
  Val1(heatTransfer(energy, initialFlueGases, water, params.tubeConfig,
                    params.heatTransferCoeff, params.furnaceDesign), LAMBDA h :
  Val2(h.heatTransferred, h.flueGases, LAMBDA heatTransferred, cooledFlueGases :
  Val1(FMul(energy, params.efficiency), LAMBDA usableHeat :
  Val1(steamGeneration(usableHeat, water, controlSettings,
                       params.pressure.min), LAMBDA sg :
  Val1(sg.return, LAMBDA steam :
  Val1(generateFlueGases(energy, fuel, air, initialFlueGases), LAMBDA g :
  Val2(g.flueGases, g.emissions, LAMBDA flueGases, emissions :
  Val1(FMul(energy, FSub(Num(1), params.efficiency)), LAMBDA wasteHeat :
    [arguments |-> [fuel |-> fuel, water |-> water, air |-> air,
                    electricity |-> electricity,
                    controlSettings |-> controlSettings, params |-> paramsArg],
     params |-> params, energy |-> energy, initialFlueGases |-> initialFlueGases,
     heatTransferred |-> heatTransferred, cooledFlueGases |-> cooledFlueGases,
     steamGeneration |-> sg, steam |-> steam, flueGases |-> flueGases,
     emissions |-> emissions, usableHeat |-> usableHeat, wasteHeat |-> wasteHeat,
     return |-> [steam |-> steam, flueGases |-> flueGases,
                 wasteHeat |-> wasteHeat, emissions |-> emissions]])))))))))))

\* boiler with the pressure setting raised, in the record it was given, to the
\* least pressure of the params
boilerRaisingPressure(fuel, water, air, electricity, controlSettings, paramsArg, dp) ==
  Val1(IF paramsArg = Undefined THEN dp ELSE paramsArg, LAMBDA params :
  Val1(IF FLess(controlSettings.pressure, params.pressure.min)
       THEN [controlSettings EXCEPT !.pressure = params.pressure.min]
       ELSE controlSettings, LAMBDA raised :
  Val1(furnace(fuel, air), LAMBDA f :
  Val2(f.energy, f.flueGases, LAMBDA energy, initialFlueGases :
  Val1(heatTransfer(energy, initialFlueGases, water, params.tubeConfig,
                    params.heatTransferCoeff, params.furnaceDesign), LAMBDA h :
  Val2(h.heatTransferred, h.flueGases, LAMBDA heatTransferred, cooledFlueGases :
  Val1(steamGeneration(heatTransferred, water, raised,
                       params.pressure.min), LAMBDA sg :
  Val1(sg.return, LAMBDA steam :
  Val1(generateFlueGases(energy, fuel, air, initialFlueGases), LAMBDA g :
  Val2(g.flueGases, g.emissions, LAMBDA flueGases, emissions :
  Val1(FMul(energy, params.efficiency), LAMBDA usableHeat :
  Val1(FMul(energy, FSub(Num(1), params.efficiency)), LAMBDA wasteHeat :
    [arguments |-> [fuel |-> fuel, water |-> water, air |-> air,
                    electricity |-> electricity,
                    controlSettings |-> raised, params |-> paramsArg],
     params |-> params, energy |-> energy, initialFlueGases |-> initialFlueGases,
     heatTransferred |-> heatTransferred, cooledFlueGases |-> cooledFlueGases,
     steamGeneration |-> sg, steam |-> steam, flueGases |-> flueGases,
     emissions |-> emissions, usableHeat |-> usableHeat, wasteHeat |-> wasteHeat,
     return |-> [steam |-> steam, flueGases |-> flueGases,
                 wasteHeat |-> wasteHeat, emissions |-> emissions]]))))))))))))

\* paramsArg is the sixth argument, Undefined when it is not passed; dp is the
\* module's defaultParams object as it is when the call is made
boiler(fuel, water, air, electricity, controlSettings, paramsArg, dp) ==
  Val1(IF paramsArg = Undefined THEN dp ELSE paramsArg, LAMBDA params :
  Val1(furnace(fuel, air), LAMBDA f :
  Val2(f.energy, f.flueGases, LAMBDA energy, initialFlueGases :
  Val1(heatTransfer(energy, initialFlueGases, water, params.tubeConfig,
                    params.heatTransferCoeff, params.furnaceDesign), LAMBDA h :
  Val2(h.heatTransferred, h.flueGases, LAMBDA heatTransferred, cooledFlueGases :
  Val1(steamGeneration(heatTransferred, water, controlSettings,
                       params.pressure.min), LAMBDA sg :
  Val1(sg.return, LAMBDA steam :
  Val1(generateFlueGases(energy, fuel, air, initialFlueGases), LAMBDA g :
  Val2(g.flueGases, g.emissions, LAMBDA flueGases, emissions :
  Val1(FMul(energy, params.efficiency), LAMBDA usableHeat :
  Val1(FMul(energy, FSub(Num(1), params.efficiency)), LAMBDA wasteHeat :
    [arguments |-> [fuel |-> fuel, water |-> water, air |-> air,
                    electricity |-> electricity,
                    controlSettings |-> controlSettings, params |-> paramsArg],
     params |-> params, energy |-> energy, initialFlueGases |-> initialFlueGases,
     heatTransferred |-> heatTransferred, cooledFlueGases |-> cooledFlueGases,
     steamGeneration |-> sg, steam |-> steam, flueGases |-> flueGases,
     emissions |-> emissions, usableHeat |-> usableHeat, wasteHeat |-> wasteHeat,
     return |-> [steam |-> steam, flueGases |-> flueGases,
                 wasteHeat |-> wasteHeat, emissions |-> emissions]])))))))))))

(***************************************************************************)
(* lib/breakpoints.ts and lib/responsiveUtils.ts.  A value is a string     *)
(* [k |-> "string", s |-> ...], a whole number [k |-> "int", n |-> ...],   *)
(* null, or an object [k |-> "object", entries |-> ...] with its entries   *)
(* as Object.entries gives them.  A transform is Undefined when it is not  *)
(* passed, or a function [k |-> "function", name |-> ...].                 *)
(***************************************************************************)
breakpoints == [sm |-> "640px", md |-> "768px", lg |-> "1024px", xl |-> "1280px"]

\* String(val), which is also what a template literal puts for val
String(val) ==
  CASE val.k = "string" -> val.s
    [] val.k = "int" -> ToString(val.n)
    [] val.k = "null" -> "null"
    [] val.k = "undefined" -> "undefined"

\* breakpoints[key]: undefined for a key the table does not have
Lookup(key) ==
  IF key \in DOMAIN breakpoints THEN [k |-> "string", s |-> breakpoints[key]]
  ELSE Undefined

\* the transform Grid passes for its columns:
\* (val) => typeof val === 'number' ? `repeat(${val}, 1fr)` : val
ColumnsTransform == [k |-> "function", name |-> "columns"]

Transformed(transform, val) ==
  IF transform = ColumnsTransform /\ val.k = "int"
  THEN [k |-> "string", s |-> "repeat(" \o String(val) \o ", 1fr)"]
  ELSE val

\* transform ? transform(val) : String(val), as the template literal has it
CssValue(transform, val) ==
  IF transform # Undefined THEN String(Transformed(transform, val)) ELSE String(val)

RECURSIVE Join(_, _)
\* lines.join(sep)
Join(lines, sep) ==
  IF Len(lines) = 0 THEN ""
  ELSE IF Len(lines) = 1 THEN lines[1]
  ELSE lines[1] \o sep \o Join(Tail(lines), sep)

\* createResponsiveStyles as the set-up script writes it: no semicolon after
\* a declaration
createResponsiveStylesScaffold(property, value, transform) ==
  IF value.k = "object"
  THEN Val1([i \in 1..Len(value.entries) |->
               "@media (min-width: " \o String(Lookup(value.entries[i].key))
                 \o ") { " \o property \o ": "
                 \o CssValue(transform, value.entries[i].val) \o " }"],
            LAMBDA rules : [rules |-> rules, return |-> Join(rules, "\n")])
  ELSE [rules |-> <<>>,
        return |-> property \o ": " \o CssValue(transform, value)]

\* createResponsiveStyles is modelled by its frame: in rules the array that
\* map returns (empty when the value is not an object), in return the string
createResponsiveStyles(property, value, transform) ==
  IF value.k = "object"
  THEN Val1([i \in 1..Len(value.entries) |->
               "@media (min-width: " \o String(Lookup(value.entries[i].key))
                 \o ") { " \o property \o ": "
                 \o CssValue(transform, value.entries[i].val) \o "; }"],
            LAMBDA rules : [rules |-> rules, return |-> Join(rules, "\n")])
  ELSE [rules |-> <<>>,
        return |-> property \o ": " \o CssValue(transform, value) \o ";"]

(***************************************************************************)
(* The program as a state machine.  The only state of lib/boilerModel.ts   *)
(* that outlives a call is the module's defaultParams object.  last is the *)
(* record of the most recent call of boiler (its arguments and its frame), *)
(* held the record of some earlier call that an observer has kept: when a  *)
(* call is made the observer either keeps what it holds or takes the call  *)
(* that was the most recent until then.  pc and invocations are calls of   *)
(* boiler in progress, each at one of its statements: they are what a      *)
(* caller that runs several calls side by side, a stage at a time, sees.   *)
(***************************************************************************)
VARIABLES defaultParams, held, last, pc, invocations,
          form, output, isMobileMenuOpen, activities, submits, simulations,
          journal, view

vars ==
  <<defaultParams, held, last, pc, invocations,
    form, output, isMobileMenuOpen, activities, submits, simulations,
    journal, view>>

pageVars ==
  <<form, output, isMobileMenuOpen, activities, submits, simulations,
    journal, view>>

NoCall == [args |-> Undefined]

\* the inputs the form starts with (BoilerInputForm), params not passed
ScenarioA ==
  [fuel |-> [type |-> "wood", quantity |-> Num(1000), heatContent |-> Num(8000)],
   water |-> [quantity |-> Num(34500), temperature |-> Num(20)],
   air |-> [quantity |-> Num(12000), temperature |-> Num(20)],
   electricity |-> Num(50),
   controlSettings |-> [pressure |-> Num(200), temperature |-> Num(382)],
   params |-> Undefined]

\* 638.8888888888889 * 1.8 = 1150 exactly: with pressure 0 the steam needs
\* 212 - (1150 + 32) + 970 = 0 BTU per lb
ZeroHeatTemperature == Dec(<<6388, 8888, 8888, 8889>>, 13)

\* the fuel quantities are 0, 1000, ..., 1000 * MaxQuantitySteps
MaxQuantitySteps == 2

FuelQuantities == {Num(1000 * i) : i \in 0..MaxQuantitySteps}

HeatContents == {Num(8000), Num(16000)}

\* the rest of the process inputs: the form's, the form's with another fuel and
\* no air, and a feed that needs no heat
Conditions ==
  {[type |-> "wood", air |-> ScenarioA.air,
    temperature |-> Num(20), pressure |-> Num(200)],
   [type |-> "coal", air |-> [quantity |-> Num(0), temperature |-> Num(-5)],
    temperature |-> Num(20), pressure |-> Num(200)],
   [type |-> "coal", air |-> [quantity |-> Num(6000), temperature |-> Num(35)],
    temperature |-> ZeroHeatTemperature, pressure |-> Num(0)]}

\* calls that differ in the process inputs, params not passed
ProcessInputs ==
  {[ScenarioA EXCEPT
      !.fuel = [type |-> c.type, quantity |-> q, heatContent |-> hc],
      !.air = c.air,
      !.water.temperature = c.temperature,
      !.controlSettings.pressure = c.pressure] :
     q \in FuelQuantities, hc \in HeatContents, c \in Conditions}

\* a second operating point
ScenarioB ==
  [fuel |-> [type |-> "coal", quantity |-> Num(2000), heatContent |-> Num(16000)],
   water |-> [quantity |-> Num(20000), temperature |-> Num(80)],
   air |-> [quantity |-> Num(6000), temperature |-> Num(35)],
   electricity |-> Num(75),
   controlSettings |-> [pressure |-> Num(100), temperature |-> Num(300)],
   params |-> Undefined]

Efficiencies == {Num(0), Dec(<<8>>, 1), N0_9, Num(1)}

MinPressures == {Num(15), Num(250)}

\* params that differ from the defaults in efficiency and pressure.min
TunedParams ==
  {[DefaultParamsInit EXCEPT !.efficiency = eff, !.pressure.min = pmin] :
     eff \in Efficiencies, pmin \in MinPressures}

\* params that differ from the defaults in one of the other fields, or in all
OtherFields ==
  [tubeConfig |-> [numTubes |-> Num(200), diameter |-> Num(3), length |-> Num(12)],
   furnaceDesign |-> [corrugated |-> FALSE, type |-> "dry-back"],
   heatTransferCoeff |-> Num(75),
   refractory |-> [thermalConductivity |-> Num(1), maxTemp |-> Num(1500)],
   horsepower |-> [min |-> Num(100), max |-> Num(3000)],
   steamOutput |-> [min |-> Num(0), max |-> Num(1)],
   pressure |-> [min |-> DefaultParamsInit.pressure.min, max |-> Num(400)]]

RebuiltParams ==
  {[fld \in DOMAIN DefaultParamsInit |->
      IF fld \in changed THEN OtherFields[fld] ELSE DefaultParamsInit[fld]] :
     changed \in {{fld} : fld \in DOMAIN OtherFields} \cup {DOMAIN OtherFields}}

\* the defaults written out by a caller that passes them
ExplicitParams ==
  [efficiency |-> Dec(<<9>>, 1),
   horsepower |-> [min |-> Num(50), max |-> Num(2500)],
   steamOutput |-> [min |-> Num(1725), max |-> Num(86250)],
   pressure |-> [min |-> Num(15), max |-> Num(350)],
   furnaceDesign |-> [corrugated |-> TRUE, type |-> "wet-back"],
   tubeConfig |-> [numTubes |-> Num(100), diameter |-> Num(2), length |-> Num(10)],
   refractory |-> [thermalConductivity |-> Dec(<<5>>, 1), maxTemp |-> Num(1200)],
   heatTransferCoeff |-> Num(50)]

\* calls that differ in params
ParamInputs ==
  {[ScenarioA EXCEPT !.params = p] :
     p \in {Undefined} \cup TunedParams \cup RebuiltParams}
  \cup
  {[ScenarioB EXCEPT !.params = p] :
     p \in {Undefined, ExplicitParams,
            [DefaultParamsInit EXCEPT !.efficiency = Dec(<<8>>, 1)],
            [DefaultParamsInit EXCEPT !.pressure.min = Num(250)]}
           \cup {rp \in RebuiltParams : \A fld \in DOMAIN OtherFields :
                                          rp[fld] = OtherFields[fld]}}

\* the calls that can be in progress at a time are 1 .. MaxCalls
MaxCalls == 2

Calls == 1..MaxCalls

Idle == [args |-> Undefined]

(***************************************************************************)
(* The page (app/page.tsx) and its form (components/BoilerInputForm.tsx).  *)
(* form is the state of the form's fields, output and activities are the   *)
(* state of the page with isMobileMenuOpen, view is what the page shows:   *)
(* what BoilerVisualization and RecentActivity built from their props when *)
(* the page was last rendered, which it is whenever its state is set.      *)
(* submits counts the submit events and simulations the calls of boiler    *)
(* the page has made; journal has the calls the form has made of its two   *)
(* props, onSubmit and addActivity, oldest first.                          *)
(***************************************************************************)
Null == [k |-> "null"]

\* the submit events a run of the page has are at most MaxSubmits
MaxSubmits == 5

\* the page before anything was submitted: no BoilerVisualization, an empty
\* RecentActivity
BlankView == [visualization |-> Null, recentActivity |-> <<>>]

FormInit ==
  [fuelType |-> "wood", fuelQuantity |-> Num(1000), fuelHeatContent |-> Num(8000),
   waterQuantity |-> Num(34500), waterTemp |-> Num(20),
   airQuantity |-> Num(12000), airTemp |-> Num(20),
   electricity |-> Num(50), pressure |-> Num(200), temperature |-> Num(382)]

\* the module with a derated default efficiency
InitDerated ==
  /\ defaultParams = [DefaultParamsInit EXCEPT !.efficiency = Dec(<<8>>, 1)]
  /\ held = NoCall
  /\ last = NoCall
  /\ pc = [i \in Calls |-> "idle"]
  /\ invocations = [i \in Calls |-> Idle]
  /\ form = FormInit
  /\ output = Null
  /\ isMobileMenuOpen = FALSE
  /\ activities = <<>>
  /\ submits = 0
  /\ simulations = 0
  /\ journal = <<>>
  /\ view = BlankView

Init ==
  /\ defaultParams = DefaultParamsInit
  /\ held = NoCall
  /\ last = NoCall
  /\ pc = [i \in Calls |-> "idle"]
  /\ invocations = [i \in Calls |-> Idle]
  /\ form = FormInit
  /\ output = Null
  /\ isMobileMenuOpen = FALSE
  /\ activities = <<>>
  /\ submits = 0
  /\ simulations = 0
  /\ journal = <<>>
  /\ view = BlankView

\* a call that leaves the arguments it was given in the module's defaults
SimulateRetuning(a) ==
  /\ last' = [args |-> a,
              frame |-> boiler(a.fuel, a.water, a.air, a.electricity,
                               a.controlSettings, a.params, defaultParams)]
  /\ held' \in {held, last}
  /\ defaultParams' = last'.frame.params
  /\ UNCHANGED <<pc, invocations, pageVars>>

\* boiler(a.fuel, ..., a.params) is called and returns
Simulate(a) ==
  /\ last' = [args |-> a,
              frame |-> boiler(a.fuel, a.water, a.air, a.electricity,
                               a.controlSettings, a.params, defaultParams)]
  /\ held' \in {held, last}
  /\ UNCHANGED <<defaultParams, pc, invocations, pageVars>>

Next == \E a \in ProcessInputs : Simulate(a)

Spec == Init /\ [][Next]_vars

NextParams == \E a \in ParamInputs : Simulate(a)

SpecParams == Init /\ [][NextParams]_vars

\* 2^1020, a quantity whose product with a heat content is beyond the largest
\* number
HugeQuantity == Canon(FALSE, <<1>>, 1020)

\* feeds for which the steam needs heat, no heat, and less than no heat (at 700
\* inlet and pressure 0, 212 - (1260 + 32) + 970 = -110 BTU per lb), and one
\* whose figures are rounded: 85.5 inlet, 123.4 PSIG
Feeds ==
  {[temperature |-> Num(20), pressure |-> Num(200)],
   [temperature |-> ZeroHeatTemperature, pressure |-> Num(0)],
   [temperature |-> Num(700), pressure |-> Num(0)],
   [temperature |-> Dec(<<855>>, 1), pressure |-> Dec(<<1234>>, 1)]}

\* calls over the range of the numbers: every number finite and not negative,
\* efficiency 0.9 (params not passed) or 1
RangeInputs ==
  {[ScenarioA EXCEPT
      !.fuel.quantity = q,
      !.water.temperature = fd.temperature,
      !.controlSettings.pressure = fd.pressure,
      !.params = p] :
     q \in {Num(0), Num(1000), HugeQuantity}, fd \in Feeds,
     p \in {Undefined, [DefaultParamsInit EXCEPT !.efficiency = Num(1)]}}

NextRange == \E a \in RangeInputs : Simulate(a)

SpecRange == Init /\ [][NextRange]_vars

(***************************************************************************)
(* boiler a statement at a time.  pc[i] names the statement call i is at.  *)
(* invocations[i] has the arguments and the locals of the call (Undefined  *)
(* until the statement that binds them has run), in trace the stages it    *)
(* has called with what it passed and what it got, and in interleaved      *)
(* whether a statement of another call ran between two of its stages.      *)
(***************************************************************************)
StageInputs ==
  {[ScenarioA EXCEPT !.water.temperature = ZeroHeatTemperature,
                     !.controlSettings.pressure = Num(0)],
   [ScenarioB EXCEPT !.params =
      [DefaultParamsInit EXCEPT !.efficiency = Dec(<<8>>, 1)]]}

\* the call as it starts: params bound to the argument or to the defaults
Entered(a, dp) ==
  [args |-> a,
   params |-> IF a.params = Undefined THEN dp ELSE a.params,
   trace |-> <<>>, interleaved |-> FALSE,
   energy |-> Undefined, initialFlueGases |-> Undefined,
   heatTransferred |-> Undefined, cooledFlueGases |-> Undefined,
   steam |-> Undefined, flueGases |-> Undefined, emissions |-> Undefined,
   usableHeat |-> Undefined, wasteHeat |-> Undefined, return |-> Undefined]

Midway == {"heatTransfer", "steamGeneration", "generateFlueGases", "return"}

\* call i goes to stmt with the locals of next; the calls that are between two
\* stages see it
Proceed(i, stmt, next) ==
  /\ pc' = [pc EXCEPT ![i] = stmt]
  /\ UNCHANGED <<defaultParams, held, last, pageVars>>
  /\ invocations' =
       [j \in Calls |->
          IF j = i THEN next
          ELSE IF pc[j] \in Midway
               THEN [invocations[j] EXCEPT !.interleaved = TRUE]
               ELSE invocations[j]]

Enter(i, a) ==
  /\ pc[i] = "idle"
  /\ Proceed(i, "furnace", Entered(a, defaultParams))

FurnaceCalled(c) ==
  Val1(furnace(c.args.fuel, c.args.air), LAMBDA f :
    [c EXCEPT
       !.energy = f.energy,
       !.initialFlueGases = f.flueGases,
       !.trace = Append(@, [stage |-> "furnace",
                            arguments |-> <<c.args.fuel, c.args.air>>,
                            result |-> f])])

CallFurnace(i) ==
  /\ pc[i] = "furnace"
  /\ Proceed(i, "heatTransfer", FurnaceCalled(invocations[i]))

HeatTransferCalled(c) ==
  Val1(heatTransfer(c.energy, c.initialFlueGases, c.args.water,
                    c.params.tubeConfig, c.params.heatTransferCoeff,
                    c.params.furnaceDesign), LAMBDA h :
    [c EXCEPT
       !.heatTransferred = h.heatTransferred,
       !.cooledFlueGases = h.flueGases,
       !.trace = Append(@, [stage |-> "heatTransfer",
                            arguments |-> <<c.energy, c.initialFlueGases,
                                            c.args.water, c.params.tubeConfig,
                                            c.params.heatTransferCoeff,
                                            c.params.furnaceDesign>>,
                            result |-> h])])

CallHeatTransfer(i) ==
  /\ pc[i] = "heatTransfer"
  /\ Proceed(i, "steamGeneration", HeatTransferCalled(invocations[i]))

\* steamGeneration is called with heat as its first argument
SteamGenerationCalled(c, heat) ==
  Val1(steamGeneration(heat, c.args.water, c.args.controlSettings,
                       c.params.pressure.min), LAMBDA sg :
    [c EXCEPT
       !.steam = sg.return,
       !.trace = Append(@, [stage |-> "steamGeneration",
                            arguments |-> <<heat, c.args.water,
                                            c.args.controlSettings,
                                            c.params.pressure.min>>,
                            result |-> sg.return])])

\* the steam stage of a boiler that does not go on when the steam needs no heat
CallSteamGenerationChecked(i) ==
  /\ pc[i] = "steamGeneration"
  /\ ~IsInf(steamGeneration(invocations[i].heatTransferred,
                            invocations[i].args.water,
                            invocations[i].args.controlSettings,
                            invocations[i].params.pressure.min).steamOutput)
  /\ Proceed(i, "generateFlueGases",
             SteamGenerationCalled(invocations[i], invocations[i].heatTransferred))

\* the steam stage fed with the energy of the furnace
CallSteamGenerationFromFurnace(i) ==
  /\ pc[i] = "steamGeneration"
  /\ Proceed(i, "generateFlueGases",
             SteamGenerationCalled(invocations[i], invocations[i].energy))

\* the steam stage of a boiler that keeps the heat transferred in one place for
\* all the calls in progress: call i reads what the first of them put there
CallSteamGenerationShared(i) ==
  /\ pc[i] = "steamGeneration"
  /\ Proceed(i, "generateFlueGases",
             SteamGenerationCalled(
               invocations[i],
               invocations[CHOOSE j \in Calls :
                             /\ pc[j] \in Midway \ {"heatTransfer"}
                             /\ \A k \in Calls :
                                  pc[k] \in Midway \ {"heatTransfer"} => j <= k
                          ].heatTransferred))

CallSteamGeneration(i) ==
  /\ pc[i] = "steamGeneration"
  /\ Proceed(i, "generateFlueGases",
             SteamGenerationCalled(invocations[i], invocations[i].heatTransferred))

GenerateFlueGasesCalled(c) ==
  Val1(generateFlueGases(c.energy, c.args.fuel, c.args.air, c.initialFlueGases),
       LAMBDA g :
    [c EXCEPT
       !.flueGases = g.flueGases,
       !.emissions = g.emissions,
       !.trace = Append(@, [stage |-> "generateFlueGases",
                            arguments |-> <<c.energy, c.args.fuel, c.args.air,
                                            c.initialFlueGases>>,
                            result |-> g])])

CallGenerateFlueGases(i) ==
  /\ pc[i] = "generateFlueGases"
  /\ Proceed(i, "return", GenerateFlueGasesCalled(invocations[i]))

\* the two heats are computed and the BoilerOutput is built
Assembled(c) ==
  Val2(FMul(c.energy, c.params.efficiency),
       FMul(c.energy, FSub(Num(1), c.params.efficiency)),
       LAMBDA usableHeat, wasteHeat :
    [c EXCEPT
       !.usableHeat = usableHeat,
       !.wasteHeat = wasteHeat,
       !.return = [steam |-> c.steam, flueGases |-> c.flueGases,
                   wasteHeat |-> wasteHeat, emissions |-> c.emissions]])

Return(i) ==
  /\ pc[i] = "return"
  /\ Proceed(i, "done", Assembled(invocations[i]))

\* call i, which is made once, runs its next statement
Step(i) ==
  \/ CallFurnace(i)
  \/ CallHeatTransfer(i)
  \/ CallSteamGeneration(i)
  \/ CallGenerateFlueGases(i)
  \/ Return(i)

\* some call in progress runs its next statement
Steps == \E i \in Calls : Step(i)

NextStages ==
  \/ \E i \in Calls, a \in StageInputs : Enter(i, a)
  \/ Steps

SpecStages == Init /\ [][NextStages]_vars

\* while a call is in progress one of them runs on: the code has no point at
\* which it waits
SpecStagesFair == SpecStages /\ WF_vars(Steps)

\* what the user types into the two fields that are edited here; an emptied
\* field is 0
FormQuantities == {Num(1000), Num(0)}

FormPressures == {Num(200), Num(100)}

\* the inputs the form's handleSubmit builds from the fields, as the arguments
\* of the call the page makes with them: params is not passed
FormInputs(f) ==
  [fuel |-> [type |-> f.fuelType, quantity |-> f.fuelQuantity,
             heatContent |-> f.fuelHeatContent],
   water |-> [quantity |-> f.waterQuantity, temperature |-> f.waterTemp],
   air |-> [quantity |-> f.airQuantity, temperature |-> f.airTemp],
   electricity |-> f.electricity,
   controlSettings |-> [pressure |-> f.pressure, temperature |-> f.temperature],
   params |-> Undefined]

\* the values put into the text "Ran simulation: ..., ... lb/hr, ... PSIG"
Activity(f) ==
  [fuelType |-> f.fuelType, fuelQuantity |-> f.fuelQuantity, pressure |-> f.pressure]

\* addActivity that puts the activity after the ones there are
AddActivityLast(activity, prev) ==
  LET all == prev \o <<activity>>
  IN  SubSeq(all, 1, IF Len(all) < 4 THEN Len(all) ELSE 4)

\* [activity, ...prev].slice(0, 4)
AddActivity(activity, prev) ==
  LET all == <<activity>> \o prev
  IN  SubSeq(all, 1, IF Len(all) < 4 THEN Len(all) ELSE 4)

\* an Efficiency StatCard that shows 0.0 when there is no heat at all
EfficiencyStatGuarded(o) ==
  IF IsZero(FAdd(FMul(o.steam.flowRate, Num(1000)), o.wasteHeat))
  THEN [text |-> "fixed", digits |-> 1, units |-> 0]
  ELSE ToFixed(FMul(FDiv(FMul(o.steam.flowRate, Num(1000)),
                         FAdd(FMul(o.steam.flowRate, Num(1000)), o.wasteHeat)),
                    Num(100)), 1)

\* the value of the Efficiency StatCard, before the "%"
EfficiencyStat(o) ==
  ToFixed(FMul(FDiv(FMul(o.steam.flowRate, Num(1000)),
                    FAdd(FMul(o.steam.flowRate, Num(1000)), o.wasteHeat)),
               Num(100)), 1)

\* the three data sets BoilerVisualization builds from its prop, and the
\* values of its four StatCards before their units
Visualization(o) ==
  [energyData |-> <<[name |-> "Usable Heat", value |-> FMul(o.steam.flowRate, Num(1000))],
                    [name |-> "Waste Heat", value |-> o.wasteHeat]>>,
   flueGasCompositionData |-> o.flueGases.composition,
   emissionsData |-> o.emissions,
   stats |-> [flowRate |-> ToFixed(o.steam.flowRate, 2),
              pressure |-> o.steam.pressure,
              temperature |-> o.steam.temperature,
              efficiency |-> EfficiencyStat(o)]]

\* a page that shows BoilerVisualization when there is steam
RenderedIfSteam(o, acts) ==
  [visualization |-> IF o = Null \/ IsZero(o.steam.flowRate) THEN Null
                     ELSE Visualization(o),
   recentActivity |-> acts]

\* what the page shows of its state: BoilerVisualization when output is not
\* null, and the activities
Rendered(o, acts) ==
  [visualization |-> IF o = Null THEN Null ELSE Visualization(o),
   recentActivity |-> acts]

\* handleSubmit adding the activity before it calls onSubmit
PropCallsActivityFirst(f) ==
  <<[prop |-> "addActivity", arg |-> Activity(f)],
    [prop |-> "onSubmit", arg |-> FormInputs(f)]>>

\* the calls of its props that handleSubmit makes, in the order it makes them
PropCalls(f) ==
  <<[prop |-> "onSubmit", arg |-> FormInputs(f)],
    [prop |-> "addActivity", arg |-> Activity(f)]>>

SetFuelQuantity(q) ==
  /\ form' = [form EXCEPT !.fuelQuantity = q]
  /\ UNCHANGED <<defaultParams, held, last, pc, invocations, output,
                 isMobileMenuOpen, activities, submits, simulations, journal, view>>

SetPressure(p) ==
  /\ form' = [form EXCEPT !.pressure = p]
  /\ UNCHANGED <<defaultParams, held, last, pc, invocations, output,
                 isMobileMenuOpen, activities, submits, simulations, journal, view>>

\* a submit that keeps the result the page already has
SubmitOnce ==
  /\ submits < MaxSubmits
  /\ submits' = submits + 1
  /\ simulations' = simulations + 1
  /\ last' = [args |-> FormInputs(form),
              frame |-> boiler(FormInputs(form).fuel, FormInputs(form).water,
                               FormInputs(form).air, FormInputs(form).electricity,
                               FormInputs(form).controlSettings, Undefined,
                               defaultParams)]
  /\ output' = IF output = Null THEN last'.frame.return ELSE output
  /\ activities' = AddActivity(Activity(form), activities)
  /\ journal' = journal \o PropCalls(form)
  /\ view' = Rendered(output', activities')
  /\ UNCHANGED <<defaultParams, held, pc, invocations, form, isMobileMenuOpen>>

\* the form is submitted: its handleSubmit builds the inputs and calls onSubmit,
\* the page's handleSubmit, which calls boiler and sets output, and then
\* addActivity, which sets activities; the page is rendered with the two
Submit ==
  /\ submits < MaxSubmits
  /\ submits' = submits + 1
  /\ simulations' = simulations + 1
  /\ last' = [args |-> FormInputs(form),
              frame |-> boiler(FormInputs(form).fuel, FormInputs(form).water,
                               FormInputs(form).air, FormInputs(form).electricity,
                               FormInputs(form).controlSettings, Undefined,
                               defaultParams)]
  /\ output' = last'.frame.return
  /\ activities' = AddActivity(Activity(form), activities)
  /\ journal' = journal \o PropCalls(form)
  /\ view' = Rendered(output', activities')
  /\ UNCHANGED <<defaultParams, held, pc, invocations, form, isMobileMenuOpen>>

\* the menu button is clicked: setIsMobileMenuOpen(true), and the page is
\* rendered
OpenMobileMenu ==
  /\ isMobileMenuOpen' = TRUE
  /\ view' = Rendered(output, activities)
  /\ UNCHANGED <<defaultParams, held, last, pc, invocations,
                 form, output, activities, submits, simulations, journal>>

\* MobileNav calls onClose: setIsMobileMenuOpen(false), and the page is
\* rendered
CloseMobileMenu ==
  /\ isMobileMenuOpen' = FALSE
  /\ view' = Rendered(output, activities)
  /\ UNCHANGED <<defaultParams, held, last, pc, invocations,
                 form, output, activities, submits, simulations, journal>>

NextPage ==
  \/ \E q \in FormQuantities : SetFuelQuantity(q)
  \/ \E p \in FormPressures : SetPressure(p)
  \/ Submit
  \/ OpenMobileMenu
  \/ CloseMobileMenu

SpecPage == Init /\ [][NextPage]_vars

\* fuels whose energy is 8000000, 0, 4056376.8000000003 (1176 * 3449.3, which
\* is rounded) and beyond the largest number
BalanceFuels ==
  {[type |-> "wood", quantity |-> Num(1000), heatContent |-> Num(8000)],
   [type |-> "wood", quantity |-> Num(0), heatContent |-> Num(8000)],
   [type |-> "wood", quantity |-> Num(1176), heatContent |-> Dec(<<3, 4493>>, 1)],
   [type |-> "wood", quantity |-> HugeQuantity, heatContent |-> Num(8000)]}

\* calls with these fuels and the efficiencies 0.9 (params not passed), 0.8, 1
BalanceInputs ==
  {[ScenarioA EXCEPT !.fuel = fu, !.params = p] :
     fu \in BalanceFuels,
     p \in {Undefined} \cup
           {[DefaultParamsInit EXCEPT !.efficiency = eff] :
              eff \in {Dec(<<8>>, 1), Num(1)}}}

NextBalance == \E a \in BalanceInputs : Simulate(a)

SpecBalance == Init /\ [][NextBalance]_vars

\* the inputs that no stage reads, as the form has them and changed
UnreadInputs ==
  {[type |-> ty, waterQuantity |-> wq, airTemperature |-> at,
    electricity |-> el, temperature |-> ct] :
     ty \in {"wood", "coal"}, wq \in {Num(34500), Num(20000)},
     at \in {Num(20), Num(35)}, el \in {Num(50), Num(75)},
     ct \in {Num(382), Num(300)}}

\* the number of fields in which u is not as the form has it
Changes(u) ==
  Cardinality({fld \in DOMAIN u : u[fld] # [type |-> "wood",
                                            waterQuantity |-> Num(34500),
                                            airTemperature |-> Num(20),
                                            electricity |-> Num(50),
                                            temperature |-> Num(382)][fld]})

\* calls at two operating points with none, one or all of these inputs changed
UnreadVariations ==
  {[b EXCEPT !.fuel.type = u.type, !.water.quantity = u.waterQuantity,
             !.air.temperature = u.airTemperature, !.electricity = u.electricity,
             !.controlSettings.temperature = u.temperature] :
     b \in {ScenarioA,
            [ScenarioA EXCEPT !.fuel.quantity = Num(2000),
                              !.controlSettings.pressure = Num(100)]},
     u \in {v \in UnreadInputs : Changes(v) \in {0, 1, 5}}}

NextUnread == \E a \in UnreadVariations : Simulate(a)

SpecUnread == Init /\ [][NextUnread]_vars

(***************************************************************************)
(* heatTransfer called on its own, with arguments that no furnace need     *)
(* have produced.  last is the record of the call.                         *)
(***************************************************************************)
CombustionEnergies == {Num(0), Num(8000000), Num(-8000000), Inf(FALSE), NaN}

FlueGasRecords ==
  {[volume |-> Num(10800), temp |-> Num(1100),
    composition |-> calculateFlueGasComposition(ScenarioA.fuel, ScenarioA.air)],
   [volume |-> Num(0), temp |-> Num(500), composition |-> [CO2 |-> Num(100)]]}

FurnaceDesigns ==
  {[corrugated |-> c, type |-> t] : c \in BOOLEAN, t \in {"wet-back", "dry-back"}}

HeatTransferInputs ==
  {[combustionEnergy |-> en, flueGases |-> fg, water |-> w, tubeConfig |-> tc,
    heatTransferCoeff |-> co, furnaceDesign |-> fd] :
     en \in CombustionEnergies, fg \in FlueGasRecords,
     w \in {ScenarioA.water, ScenarioB.water},
     tc \in {DefaultParamsInit.tubeConfig, OtherFields.tubeConfig},
     co \in {Num(50), Num(75)}, fd \in FurnaceDesigns}

\* heatTransfer(x.combustionEnergy, ..., x.furnaceDesign) is called and returns
HeatTransferAlone(x) ==
  /\ last' = [args |-> x,
              stage |-> "heatTransfer",
              frame |-> [return |-> heatTransfer(x.combustionEnergy, x.flueGases,
                                                 x.water, x.tubeConfig,
                                                 x.heatTransferCoeff,
                                                 x.furnaceDesign)]]
  /\ UNCHANGED <<defaultParams, held, pc, invocations, pageVars>>

NextHeatTransfer == \E x \in HeatTransferInputs : HeatTransferAlone(x)

SpecHeatTransfer == Init /\ [][NextHeatTransfer]_vars

(***************************************************************************)
(* steamGeneration called on its own.  last is the record of the call.     *)
(***************************************************************************)
\* inlet temperatures below 638, at it, where the steam needs no heat at
\* pressure 0, and above
InletTemperatures ==
  {Num(0), Num(20), Dec(<<855>>, 1), Dec(<<6379>>, 1), Num(638),
   ZeroHeatTemperature, Num(889)}

\* 1.2 * 375.1666666666667 and 1.8 * 889 - 1150 are both 450.20000000000005
TargetPressures ==
  {Num(0), Dec(<<1>>, 1), Dec(<<1234>>, 1), Num(200),
   Dec(<<3751, 6666, 6666, 6667>>, 13)}

SteamGenerationInputs ==
  {[heatTransferred |-> h,
    water |-> [quantity |-> Num(34500), temperature |-> t],
    controlSettings |-> [pressure |-> p, temperature |-> Num(382)],
    pressure |-> pmin] :
     h \in {Num(0), Num(7200000)}, t \in InletTemperatures,
     p \in TargetPressures, pmin \in MinPressures}

\* steamGeneration(x.heatTransferred, ..., x.pressure) is called and returns
SteamGenerationAlone(x) ==
  /\ last' = [args |-> x,
              stage |-> "steamGeneration",
              frame |-> steamGeneration(x.heatTransferred, x.water,
                                        x.controlSettings, x.pressure)]
  /\ UNCHANGED <<defaultParams, held, pc, invocations, pageVars>>

NextSteamGeneration == \E x \in SteamGenerationInputs : SteamGenerationAlone(x)

SpecSteamGeneration == Init /\ [][NextSteamGeneration]_vars

(***************************************************************************)
(* createResponsiveStyles called on its own.  last is the record of the    *)
(* call.                                                                   *)
(***************************************************************************)
\* an object value has at most MaxEntries entries
MaxEntries == 2

\* "xs" is not a key of breakpoints
EntryKeys == {"sm", "md", "xs"}

ScalarValues == {[k |-> "string", s |-> "1rem"], [k |-> "int", n |-> 3], Null}

EntryValues == {[k |-> "string", s |-> "1rem"], [k |-> "int", n |-> 3]}

\* the objects with up to MaxEntries entries, each key once
ObjectValues ==
  {[k |-> "object", entries |-> es] :
     es \in {s \in UNION {[1..n -> [key : EntryKeys, val : EntryValues]] :
                            n \in 0..MaxEntries} :
               \A i, j \in DOMAIN s : i # j => s[i].key # s[j].key}}

StyleInputs ==
  [property : {"padding", "grid-template-columns"},
   value : ScalarValues \cup ObjectValues,
   transform : {Undefined, ColumnsTransform}]

\* createResponsiveStyles(x.property, x.value, x.transform) is called and
\* returns
CreateResponsiveStyles(x) ==
  /\ last' = [args |-> x,
              stage |-> "createResponsiveStyles",
              frame |-> createResponsiveStyles(x.property, x.value, x.transform)]
  /\ UNCHANGED <<defaultParams, held, pc, invocations, pageVars>>

NextStyles == \E x \in StyleInputs : CreateResponsiveStyles(x)

SpecStyles == Init /\ [][NextStyles]_vars

(***************************************************************************)
(* Properties.  They are stated of the calls the state holds: last alone,  *)
(* or held and last as two calls of which held was made first.             *)
(***************************************************************************)
Called(call) == call # NoCall

BothCalled == Called(held) /\ Called(last)

SameProcessInputs(a, b) ==
  /\ a.fuel = b.fuel
  /\ a.water = b.water
  /\ a.air = b.air
  /\ a.electricity = b.electricity
  /\ a.controlSettings = b.controlSettings

\* two calls with the same process inputs whose params differ in efficiency only
EfficiencyPair ==
  /\ BothCalled
  /\ SameProcessInputs(held.args, last.args)
  /\ held.frame.params.efficiency # last.frame.params.efficiency
  /\ [held.frame.params EXCEPT !.efficiency = last.frame.params.efficiency]
       = last.frame.params

\* two calls with the same process inputs whose params differ in pressure.min only
MinPressurePair ==
  /\ BothCalled
  /\ SameProcessInputs(held.args, last.args)
  /\ held.frame.params.pressure.min # last.frame.params.pressure.min
  /\ [held.frame.params EXCEPT !.pressure.min = last.frame.params.pressure.min]
       = last.frame.params

\* two calls with the same process inputs whose params agree on efficiency and
\* pressure.min
OtherFieldsPair ==
  /\ BothCalled
  /\ SameProcessInputs(held.args, last.args)
  /\ held.frame.params.efficiency = last.frame.params.efficiency
  /\ held.frame.params.pressure.min = last.frame.params.pressure.min

\* the second call has twice the fuel quantity of the first and is otherwise the same
QuantityDoubled ==
  /\ BothCalled
  /\ last.args.fuel.quantity = FMul(Num(2), held.args.fuel.quantity)
  /\ [last.args EXCEPT !.fuel.quantity = held.args.fuel.quantity] = held.args

\* the second call has twice the heat content of the first and is otherwise the same
HeatContentDoubled ==
  /\ BothCalled
  /\ last.args.fuel.heatContent = FMul(Num(2), held.args.fuel.heatContent)
  /\ [last.args EXCEPT !.fuel.heatContent = held.args.fuel.heatContent] = held.args

ScenarioACalled == Called(last) /\ last.args = ScenarioA

ZeroDenominator == Called(last) /\ IsZero(last.frame.steamGeneration.totalHeatPerLb)

\* C1: two calls of boiler with identical arguments return identical
\* BoilerOutput records, whatever calls were made before or between them.
C1_Determinism ==
  (BothCalled /\ held.args = last.args) => held.frame.return = last.frame.return

C1_Witness ==
  /\ BothCalled
  /\ held.args = last.args
  /\ last.args.params = Undefined
  /\ last.frame.params = defaultParams

\* the Scenario A results on which the code and the specification agree
ScenarioAFigures(fr) ==
  /\ fr.params = DefaultParamsInit
  /\ fr.energy = Num(8000000)
  /\ fr.heatTransferred = Num(7200000)
  /\ fr.return.steam.temperature = Num(552)
  /\ fr.return.steam.pressure = Num(200)
  /\ fr.steamGeneration.latentHeat = Num(870)
  /\ fr.steamGeneration.sensibleHeat = Num(484)
  /\ fr.steamGeneration.totalHeatPerLb = Num(1354)
  /\ fr.return.flueGases.volume = Num(10800)
  /\ fr.return.flueGases.temp = Num(180)
  /\ fr.return.flueGases.composition
       = [CO2 |-> Num(10), H2O |-> Num(15), O2 |-> Num(5), N2 |-> Num(70)]
  /\ fr.return.emissions = [CO |-> Num(100), NOx |-> Num(50)]

\* C2 (as amended): with the Scenario A inputs and the default params the
\* pipeline yields energy 8,000,000, heatTransferred 7,200,000, steam
\* temperature 552, steam pressure 200, latentHeat 870, sensibleHeat 484,
\* totalHeatPerUnit 1354, flue gas volume 10800 at 180, the fixed composition
\* and emissions, and wasteHeat 8,000,000 * (1 - 0.9) = 799999.9999999998,
\* which is not 800,000 but less than 0.000000001 below it.
C2_ScenarioA ==
  ScenarioACalled =>
    /\ ScenarioAFigures(last.frame)
    /\ last.frame.return.wasteHeat = Dec(<<7999, 9999, 9999, 9998>>, 10)
    /\ FLess(last.frame.return.wasteHeat, Num(800000))
    /\ FLess(FSub(Num(800000), last.frame.return.wasteHeat), Dec(<<1>>, 9))

C2_Witness == ScenarioACalled /\ last.frame.params = defaultParams

\* C2 as the specification states it: wasteHeat is 800,000.
C2_AsStated ==
  ScenarioACalled =>
    /\ ScenarioAFigures(last.frame)
    /\ last.frame.return.wasteHeat = Num(800000)

\* C3 (as amended): with the Scenario A inputs and the default params
\* steam.flowRate is 7,200,000 / 1354, which is 5317.58 when rounded to two
\* decimals.
C3_SteamFlow ==
  ScenarioACalled =>
    /\ last.frame.return.steam.flowRate = FDiv(Num(7200000), Num(1354))
    /\ Hundredths(last.frame.return.steam.flowRate) = 531758

C3_Witness == ScenarioACalled /\ IsFinite(last.frame.return.steam.flowRate)

\* C3 as the specification states it: the flow rate is 5316.10 when rounded to
\* two decimals.
C3_AsStated ==
  ScenarioACalled =>
    /\ last.frame.return.steam.flowRate = FDiv(Num(7200000), Num(1354))
    /\ Hundredths(last.frame.return.steam.flowRate) = 531610

\* C4: for fixed process inputs, two calls whose params differ only in
\* tubeConfig, furnaceDesign, heatTransferCoeff, refractory, horsepower,
\* steamOutput or pressure.max return BoilerOutput records equal in every field.
C4_UnusedParams == OtherFieldsPair => held.frame.return = last.frame.return

C4_Witness ==
  /\ OtherFieldsPair
  /\ \A fld \in {"tubeConfig", "furnaceDesign", "heatTransferCoeff", "refractory",
                 "horsepower", "steamOutput"} :
       held.frame.params[fld] # last.frame.params[fld]
  /\ held.frame.params.pressure.max # last.frame.params.pressure.max

\* C5 (as amended): efficiency affects the results and pressure.min does not.
\* Two calls that differ only in efficiency, with the efficiencies 0, 0.8, 0.9
\* and 1 and fuel that releases energy, return different wasteHeat; two calls
\* that differ only in pressure.min return equal BoilerOutput records.
C5_EfficiencyOnly ==
  /\ EfficiencyPair => held.frame.return.wasteHeat # last.frame.return.wasteHeat
  /\ MinPressurePair => held.frame.return = last.frame.return

C5_Witness == MinPressurePair /\ last.frame.params.pressure.min = Num(250)

\* C5 as the specification states it: pressure.min affects the results, so two
\* calls that differ only in pressure.min return different outputs.
C5_AsStated == MinPressurePair => held.frame.return # last.frame.return

\* C6: for every fuel and every air input the returned emissions are exactly
\* {CO: 100, NOx: 50} and the returned flue gas composition is exactly
\* {CO2: 10, H2O: 15, O2: 5, N2: 70}.
C6_FixedEmissions ==
  Called(last) =>
    /\ last.frame.return.emissions = [CO |-> Num(100), NOx |-> Num(50)]
    /\ last.frame.return.flueGases.composition
         = [CO2 |-> Num(10), H2O |-> Num(15), O2 |-> Num(5), N2 |-> Num(70)]

C6_Witness ==
  /\ Called(last)
  /\ last.args.fuel.type = "coal"
  /\ last.args.fuel.quantity = Num(2000)
  /\ IsZero(last.args.air.quantity)

InUnitInterval(eff) == ~IsNaN(eff) /\ ~FLess(eff, Num(0)) /\ ~FLess(Num(1), eff)

\* C7: for every efficiency in [0,1], wasteHeat = energy * (1 - efficiency)
\* with energy = fuel.quantity * fuel.heatContent, the heat that raises the
\* steam is energy * 0.9 whatever the efficiency, and the steam does not change
\* when only the efficiency changes.
C7_EfficiencySplit ==
  /\ (Called(last) /\ InUnitInterval(last.frame.params.efficiency)) =>
       /\ last.frame.energy
            = FMul(last.args.fuel.quantity, last.args.fuel.heatContent)
       /\ last.frame.return.wasteHeat
            = FMul(FMul(last.args.fuel.quantity, last.args.fuel.heatContent),
                   FSub(Num(1), last.frame.params.efficiency))
       /\ last.frame.return.steam.flowRate
            = FDiv(FMul(FMul(last.args.fuel.quantity, last.args.fuel.heatContent),
                        N0_9),
                   last.frame.steamGeneration.totalHeatPerLb)
  /\ EfficiencyPair => held.frame.return.steam = last.frame.return.steam

C7_Witness ==
  /\ EfficiencyPair
  /\ InUnitInterval(held.frame.params.efficiency)
  /\ InUnitInterval(last.frame.params.efficiency)
  /\ held.frame.return.wasteHeat # last.frame.return.wasteHeat

\* C8: with all other inputs fixed, doubling fuel.quantity or fuel.heatContent
\* doubles energy, wasteHeat and heatTransferred and leaves steam.pressure,
\* steam.temperature, the flue gases and the emissions unchanged.
C8_Linearity ==
  (QuantityDoubled \/ HeatContentDoubled) =>
    /\ last.frame.energy = FMul(Num(2), held.frame.energy)
    /\ last.frame.return.wasteHeat = FMul(Num(2), held.frame.return.wasteHeat)
    /\ last.frame.heatTransferred = FMul(Num(2), held.frame.heatTransferred)
    /\ last.frame.return.steam.pressure = held.frame.return.steam.pressure
    /\ last.frame.return.steam.temperature = held.frame.return.steam.temperature
    /\ last.frame.return.flueGases = held.frame.return.flueGases
    /\ last.frame.return.emissions = held.frame.return.emissions

C8_Witness == QuantityDoubled /\ ~IsZero(held.frame.energy)

ZeroFuel ==
  /\ Called(last)
  /\ IsZero(last.args.fuel.quantity)
  /\ FLess(Num(0), last.frame.steamGeneration.totalHeatPerLb)

\* C9: whenever fuel.quantity is 0 and totalHeatPerUnit is positive, energy,
\* heatTransferred, wasteHeat and steam.flowRate are 0.
C9_ZeroFuel ==
  ZeroFuel =>
    /\ FEq(last.frame.energy, Num(0))
    /\ FEq(last.frame.heatTransferred, Num(0))
    /\ FEq(last.frame.return.wasteHeat, Num(0))
    /\ FEq(last.frame.return.steam.flowRate, Num(0))

C9_Witness == ZeroFuel /\ last.args.fuel.heatContent = Num(16000)

\* C10: every call completes and returns a BoilerOutput.  When
\* sensibleHeat + latentHeat is 0, steam.flowRate is Infinity if
\* heatTransferred is not 0 and NaN if it is, and the other fields are
\* computed as usual.
C10_NoError ==
  Called(last) =>
    /\ DOMAIN last.frame.return = {"steam", "flueGases", "wasteHeat", "emissions"}
    /\ DOMAIN last.frame.return.steam = {"flowRate", "pressure", "temperature"}
    /\ last.frame.return.steam.flowRate.k \in {"num", "inf", "nan"}
    /\ ZeroDenominator =>
         /\ IF IsZero(last.frame.heatTransferred)
            THEN IsNaN(last.frame.return.steam.flowRate)
            ELSE IsInf(last.frame.return.steam.flowRate)
         /\ last.frame.return.steam.pressure = last.args.controlSettings.pressure
         /\ last.frame.return.steam.temperature
              = FAdd(Num(212), FMul(last.args.controlSettings.pressure, N1_7))
         /\ last.frame.return.wasteHeat
              = FMul(FMul(last.args.fuel.quantity, last.args.fuel.heatContent),
                     FSub(Num(1), last.frame.params.efficiency))
         /\ last.frame.return.flueGases
              = [volume |-> FMul(last.args.air.quantity, N0_9), temp |-> Num(180),
                 composition |-> [CO2 |-> Num(10), H2O |-> Num(15),
                                  O2 |-> Num(5), N2 |-> Num(70)]]
         /\ last.frame.return.emissions = [CO |-> Num(100), NOx |-> Num(50)]

C10_Witness ==
  /\ ZeroDenominator
  /\ ~IsZero(last.frame.heatTransferred)
  /\ last.frame.return.steam.flowRate = Inf(FALSE)

NegativeDenominator ==
  /\ Called(last)
  /\ FLess(last.frame.steamGeneration.totalHeatPerLb, Num(0))
  /\ FLess(Num(0), last.frame.heatTransferred)

\* C11: whenever sensibleHeat + latentHeat is negative and heatTransferred is
\* positive, the call returns a BoilerOutput whose steam.flowRate is negative:
\* the quotient as it is, not validated, not clamped, no error.
C11_NegativeFlow ==
  NegativeDenominator =>
    /\ DOMAIN last.frame.return = {"steam", "flueGases", "wasteHeat", "emissions"}
    /\ FLess(last.frame.return.steam.flowRate, Num(0))
    /\ last.frame.return.steam.flowRate =
         FDiv(last.frame.heatTransferred,
              last.frame.steamGeneration.totalHeatPerLb)

C11_Witness ==
  /\ NegativeDenominator
  /\ IsFinite(last.frame.return.steam.flowRate)
  /\ last.frame.steamGeneration.totalHeatPerLb = Num(-110)

FiniteNonNegative(x) == IsFinite(x) /\ ~FLess(x, Num(0))

NumericInputs(a) ==
  {a.fuel.quantity, a.fuel.heatContent, a.water.quantity, a.water.temperature,
   a.air.quantity, a.air.temperature, a.electricity, a.controlSettings.pressure,
   a.controlSettings.temperature}

NumericOutputs(out) ==
  {out.steam.flowRate, out.steam.pressure, out.steam.temperature,
   out.flueGases.volume, out.flueGases.temp, out.wasteHeat}
  \cup {out.flueGases.composition[sp] : sp \in DOMAIN out.flueGases.composition}
  \cup {out.emissions[sp] : sp \in DOMAIN out.emissions}

\* a call whose numeric inputs are finite and not negative, efficiency in [0,1]
AdmissibleCall(call) ==
  /\ Called(call)
  /\ \A x \in NumericInputs(call.args) : FiniteNonNegative(x)
  /\ InUnitInterval(call.frame.params.efficiency)

\* C12: every numeric field of every BoilerOutput returned (steam.flowRate,
\* steam.pressure, steam.temperature, flueGases.volume, flueGases.temp,
\* wasteHeat, the composition and emissions values) is finite and none is
\* negative, for every input with finite non-negative numeric fields and
\* efficiency in [0,1].  The source does not keep this: see C12_NegativeFlowRate.
C12_AsStated ==
  AdmissibleCall(last) =>
    \A x \in NumericOutputs(last.frame.return) : FiniteNonNegative(x)

\* the failing input of C12: the form's inputs with the feed at 700 and the
\* pressure 0 give 7200000 / -110 lb/hr of steam, shown as -65454.55
C12_NegativeFlowRate ==
  /\ AdmissibleCall(last)
  /\ last.args = [ScenarioA EXCEPT !.water.temperature = Num(700),
                                   !.controlSettings.pressure = Num(0)]
  /\ Hundredths(last.frame.return.steam.flowRate) = -6545455

\* C13: after any sequence of calls the module's defaultParams and every
\* argument record passed in (fuel, water, air, controlSettings, params) have
\* exactly the values they had before the calls: boiler writes no state that
\* outlives the call.
C13_NoSideEffects ==
  /\ defaultParams = DefaultParamsInit
  /\ Called(last) => last.frame.arguments = last.args
  /\ Called(held) => held.frame.arguments = held.args

C13_Witness ==
  /\ BothCalled
  /\ held.args.params = Undefined
  /\ last.args.params # Undefined
  /\ last.args.params # DefaultParamsInit
  /\ FLess(last.args.controlSettings.pressure, last.args.params.pressure.min)

\* two calls with the same process inputs, the first without params and the
\* second with the defaults written out
DefaultsPair ==
  /\ BothCalled
  /\ SameProcessInputs(held.args, last.args)
  /\ held.args.params = Undefined
  /\ last.args.params = ExplicitParams

ParamsOmitted == Called(last) /\ last.args.params = Undefined

SteamStage(pressure, inletTemp, heatTransferred) ==
  Val1(FAdd(Num(212), FMul(Dec(<<17>>, 1), pressure)), LAMBDA steamTemp :
  Val1(FSub(Num(970), FMul(Dec(<<5>>, 1), pressure)), LAMBDA latentHeat :
  Val1(FSub(steamTemp, FAdd(FMul(Dec(<<18>>, 1), inletTemp), Num(32))),
       LAMBDA sensibleHeat :
    [pressure |-> pressure, temperature |-> steamTemp,
     flowRate |-> FDiv(heatTransferred, FAdd(sensibleHeat, latentHeat))])))

\* C16: for every input steam.pressure = controlSettings.pressure,
\* steam.temperature = 212 + 1.7 * controlSettings.pressure and steam.flowRate =
\* heatTransferred / (sensibleHeat + latentHeat), with latentHeat = 970 - 0.5 *
\* pressure and sensibleHeat = steamTemp - (1.8 * water.temperature + 32).
C16_SteamStage ==
  Called(last) =>
    last.frame.return.steam =
      SteamStage(last.args.controlSettings.pressure, last.args.water.temperature,
                 last.frame.heatTransferred)

C16_Witness ==
  /\ Called(last)
  /\ last.args.controlSettings.pressure = Dec(<<1234>>, 1)
  /\ last.args.fuel.quantity = Num(1000)
  /\ Hundredths(last.frame.return.steam.temperature) = 42178

\* C17: for every input the returned flueGases.volume is air.quantity * 0.9 and
\* flueGases.temp is 180; the furnace-side temperature 1100 is in no field of
\* the BoilerOutput; the returned volume and temp are those of the flue-gas
\* record that heatTransfer produced and boiler discards.
C17_FinalFlueGases ==
  Called(last) =>
    /\ last.frame.return.flueGases.volume =
         FMul(last.args.air.quantity, Dec(<<9>>, 1))
    /\ last.frame.return.flueGases.temp = Num(180)
    /\ last.frame.initialFlueGases.temp = Num(1100)
    /\ \A x \in NumericOutputs(last.frame.return) :
         x # last.frame.initialFlueGases.temp
    /\ last.frame.return.flueGases.volume = last.frame.cooledFlueGases.volume
    /\ last.frame.return.flueGases.temp = last.frame.cooledFlueGases.temp

C17_Witness ==
  /\ Called(last)
  /\ last.args.air.quantity = Num(6000)
  /\ last.frame.return.flueGases.volume = Num(5400)
  /\ last.frame.cooledFlueGases = [volume |-> Num(5400), temp |-> Num(180)]

Returned(i) == pc[i] = "done"

Running(i) == pc[i] \notin {"idle", "done"}

\* C14: when several calls with different inputs are interleaved a stage at a
\* time, in any order, each returns exactly the BoilerOutput it returns when
\* it runs alone.
C14_Independence ==
  \A i \in Calls :
    Returned(i) =>
      invocations[i].return =
        boiler(invocations[i].args.fuel, invocations[i].args.water,
               invocations[i].args.air, invocations[i].args.electricity,
               invocations[i].args.controlSettings, invocations[i].args.params,
               DefaultParamsInit).return

C14_Witness ==
  /\ \A i \in Calls : Returned(i) /\ invocations[i].interleaved
  /\ invocations[1].args.fuel = ScenarioA.fuel
  /\ invocations[2].args.fuel = ScenarioB.fuel

StageOrder == <<"furnace", "heatTransfer", "steamGeneration", "generateFlueGases">>

\* the stages call c has run, in the order it ran them
StagesRun(c) == [k \in 1..Len(c.trace) |-> c.trace[k].stage]

\* how many stages a call at stmt has behind it
StagesBefore(stmt) ==
  CASE stmt = "furnace" -> 0
    [] stmt = "heatTransfer" -> 1
    [] stmt = "steamGeneration" -> 2
    [] stmt = "generateFlueGases" -> 3
    [] stmt \in {"return", "done"} -> 4

\* what a stage was passed that is not an input of the call
Consumed(entry) ==
  CASE entry.stage = "furnace" -> {}
    [] entry.stage = "heatTransfer" -> {entry.arguments[1], entry.arguments[2]}
    [] entry.stage = "steamGeneration" -> {entry.arguments[1]}
    [] entry.stage = "generateFlueGases" -> {entry.arguments[1], entry.arguments[4]}

\* what a stage returned: the record and its fields
Produced(entry) ==
  {entry.result} \cup {entry.result[fld] : fld \in DOMAIN entry.result}

\* the stages of call i run once each, in their order, and the output is built
\* after them
InOrder(i) ==
  /\ StagesRun(invocations[i]) = SubSeq(StageOrder, 1, Len(invocations[i].trace))
  /\ Len(invocations[i].trace) = StagesBefore(pc[i])
  /\ (invocations[i].return # Undefined) <=> Returned(i)
  /\ Returned(i) =>
       /\ DOMAIN invocations[i].return =
            {"steam", "flueGases", "wasteHeat", "emissions"}
       /\ invocations[i].return.steam = invocations[i].trace[3].result
       /\ invocations[i].return.flueGases = invocations[i].trace[4].result.flueGases
       /\ invocations[i].return.emissions = invocations[i].trace[4].result.emissions

\* C18: within one call the stages run exactly once each in the order furnace,
\* heatTransfer, steamGeneration, generateFlueGases and the BoilerOutput is
\* assembled only after all four have run; heatTransfer consumes the output of
\* furnace and steamGeneration the output of heatTransfer, but generateFlueGases
\* consumes the output of furnace (the energy and the flue gases at 1100), not
\* that of steamGeneration or heatTransfer.
C18_StageDataFlow ==
  \A i \in Calls :
    pc[i] # "idle" =>
      /\ InOrder(i)
      /\ Len(invocations[i].trace) >= 2 =>
           Consumed(invocations[i].trace[2]) \subseteq Produced(invocations[i].trace[1])
      /\ Len(invocations[i].trace) >= 3 =>
           Consumed(invocations[i].trace[3]) \subseteq Produced(invocations[i].trace[2])
      /\ Len(invocations[i].trace) >= 4 =>
           /\ Consumed(invocations[i].trace[4])
                \subseteq Produced(invocations[i].trace[1])
           /\ invocations[i].trace[4].arguments[4]
                \notin Produced(invocations[i].trace[3])
                         \cup Produced(invocations[i].trace[2])

C18_Witness ==
  /\ Returned(1)
  /\ Len(invocations[1].trace) = 4
  /\ invocations[1].trace[4].arguments[4].temp = Num(1100)
  /\ invocations[1].trace[2].result.flueGases.temp = Num(180)

\* C18 as the specification states it: each stage consumes the output of the
\* stage immediately before it
C18_AsStated ==
  \A i \in Calls :
    pc[i] # "idle" =>
      /\ InOrder(i)
      /\ \A k \in 2..Len(invocations[i].trace) :
           Consumed(invocations[i].trace[k])
             \subseteq Produced(invocations[i].trace[k - 1])

\* the statement after stmt
Successor(stmt) ==
  CASE stmt = "furnace" -> "heatTransfer"
    [] stmt = "heatTransfer" -> "steamGeneration"
    [] stmt = "steamGeneration" -> "generateFlueGases"
    [] stmt = "generateFlueGases" -> "return"
    [] stmt = "return" -> "done"

\* a call moves from a statement to the next one only; it starts once
StraightLine ==
  \A i \in Calls :
    pc'[i] # pc[i] =>
      IF Running(i) THEN pc'[i] = Successor(pc[i])
      ELSE pc[i] = "idle" /\ pc'[i] = "furnace"

\* a call that has returned has run the four stages and has a BoilerOutput
Completed(i) ==
  /\ Len(invocations[i].trace) = 4
  /\ DOMAIN invocations[i].return = {"steam", "flueGases", "wasteHeat", "emissions"}

\* C19: every call terminates after a fixed number of steps with a
\* BoilerOutput, for every input: a call in progress can always run its next
\* statement (no stage fails), every step takes it to the next statement (no
\* loop: five steps from the entry to the return), a call that has returned
\* has a record with the four fields of a BoilerOutput, and from some point on
\* no call is in progress: each one that started has returned.
C19_Termination ==
  /\ [](\A i \in Calls : /\ Running(i) => ENABLED Step(i)
                         /\ Returned(i) => Completed(i))
  /\ [][StraightLine]_vars
  /\ <>[](\A i \in Calls : ~Running(i))

C19_Witness ==
  /\ Returned(2)
  /\ invocations[2].args.water.temperature = ZeroHeatTemperature
  /\ IsInf(invocations[2].return.steam.flowRate)
  /\ Running(1)

\* what the page's call returns for the fields f
ResultFor(f) ==
  boiler(FormInputs(f).fuel, FormInputs(f).water, FormInputs(f).air,
         FormInputs(f).electricity, FormInputs(f).controlSettings, Undefined,
         DefaultParamsInit).return

\* a step that is a submit calls boiler once with the fields as they are and
\* without params, and leaves its result in output; any other step leaves
\* output alone and calls nothing
SubmitStep ==
  IF submits' # submits
  THEN /\ submits' = submits + 1
       /\ simulations' = simulations + 1
       /\ last'.args = FormInputs(form)
       /\ last'.frame.params = defaultParams
       /\ output' = ResultFor(form)
  ELSE /\ simulations' = simulations
       /\ output' = output
       /\ last' = last

\* C20: each submit calls boiler exactly once with the submitted inputs and the
\* default params, the page's output then holds exactly that call's result, and
\* the visualization only reads the record: output is not modified between
\* submits.
C20_SubmitOnce == [][SubmitStep]_vars

C20_Witness ==
  /\ submits = 2
  /\ simulations = 2
  /\ journal[1].arg.fuel.quantity = Num(0)
  /\ last.args.fuel.quantity = Num(1000)
  /\ output = last.frame.return
  /\ view.visualization # Null
  /\ view.visualization.energyData[2].value = output.wasteHeat

HeatTransferCalledAlone ==
  /\ last # NoCall
  /\ "stage" \in DOMAIN last
  /\ last.stage = "heatTransfer"

\* C21: for every combustionEnergy, flue-gas record, water, tubeConfig,
\* heatTransferCoeff and furnaceDesign, heatTransfer returns heatTransferred =
\* combustionEnergy * 0.9 and a flue-gas record with the volume it was given
\* and temp 180 and nothing else; the result is that function of the energy
\* and the volume alone, so the corrugated and wet-back factors and the tube
\* surface area have no effect on it.
C21_HeatTransfer ==
  HeatTransferCalledAlone =>
    /\ last.frame.return.heatTransferred = FMul(last.args.combustionEnergy, N0_9)
    /\ last.frame.return.flueGases =
         [volume |-> last.args.flueGases.volume, temp |-> Num(180)]
    /\ DOMAIN last.frame.return = {"heatTransferred", "flueGases"}

\* a plain furnace with other tubes gets 7200000 of 8000000 as well
C21_Witness ==
  /\ HeatTransferCalledAlone
  /\ ~last.args.furnaceDesign.corrugated
  /\ last.args.furnaceDesign.type = "dry-back"
  /\ last.args.tubeConfig = OtherFields.tubeConfig
  /\ last.args.flueGases.temp = Num(500)
  /\ last.args.combustionEnergy = Num(8000000)
  /\ last.frame.return.heatTransferred = Num(7200000)

IsAddActivity(c) == c.prop = "addActivity"

\* the activities addActivity was called with, oldest first
Added == [k \in DOMAIN SelectSeq(journal, IsAddActivity) |->
            SelectSeq(journal, IsAddActivity)[k].arg]

\* C22: starting empty, after n calls of addActivity the list of activities has
\* min(n, 4) entries, which are the most recent activities, the newest first:
\* entry k is the k-th most recent, and the ones before the last four are
\* gone.  RecentActivity shows the list as it is.
C22_RecentActivity ==
  /\ Len(activities) = IF Len(Added) < 4 THEN Len(Added) ELSE 4
  /\ \A k \in 1..Len(activities) : activities[k] = Added[Len(Added) + 1 - k]
  /\ view.recentActivity = activities

\* five activities were added and the first is not among the four there are
C22_Witness ==
  /\ Len(Added) = 5
  /\ Len(activities) = 4
  /\ \A k \in 1..4 : activities[k] # Added[1]
  /\ activities[1] # activities[2]

SteamGenerationCalledAlone ==
  /\ last # NoCall
  /\ "stage" \in DOMAIN last
  /\ last.stage = "steamGeneration"

\* 1150 + 1.2 * pressure - 1.8 * temperature, as the language computes it
ReducedHeat(pressure, temperature) ==
  FSub(FAdd(Num(1150), FMul(Dec(<<12>>, 1), pressure)),
       FMul(N1_8, temperature))

\* x and y differ by less than 0.000000001
Close(x, y) ==
  /\ FLess(FSub(x, y), Dec(<<1>>, 9))
  /\ FLess(FSub(y, x), Dec(<<1>>, 9))

\* the pressure is not negative and the inlet temperature is below 638
BelowZeroHeat(a) ==
  /\ ~FLess(a.controlSettings.pressure, Num(0))
  /\ FLess(a.water.temperature, Num(638))

HeatAccounted(fr) == FAdd(fr.heatTransferred, fr.wasteHeat)

\* x and y differ by no more than a part in 10^15 of y
CloseTo(x, y) ==
  /\ ~FLess(FMul(y, Dec(<<1>>, 15)), FSub(x, y))
  /\ ~FLess(FMul(y, Dec(<<1>>, 15)), FSub(y, x))

ReadInputs(call) ==
  <<call.args.fuel.quantity, call.args.fuel.heatContent,
    call.args.water.temperature, call.args.air.quantity,
    call.args.controlSettings.pressure, call.frame.params.efficiency>>

\* C25: two calls that differ only in electricity, water.quantity,
\* air.temperature, controlSettings.temperature or fuel.type return equal
\* BoilerOutput records: the output depends only on fuel.quantity,
\* fuel.heatContent, water.temperature, air.quantity, controlSettings.pressure
\* and params.efficiency.
C25_UnreadInputs ==
  (BothCalled /\ ReadInputs(held) = ReadInputs(last)) =>
    held.frame.return = last.frame.return

\* two calls that differ in all five and return the same
C25_Witness ==
  /\ BothCalled
  /\ ReadInputs(held) = ReadInputs(last)
  /\ held.args.electricity # last.args.electricity
  /\ held.args.water.quantity # last.args.water.quantity
  /\ held.args.air.temperature # last.args.air.temperature
  /\ held.args.controlSettings.temperature # last.args.controlSettings.temperature
  /\ held.args.fuel.type # last.args.fuel.type
  /\ held.frame.return = last.frame.return
  /\ IsFinite(last.frame.return.steam.flowRate)
  /\ ~IsZero(last.frame.return.steam.flowRate)

\* the message for the inputs of a submit
MessageFor(inputs) ==
  [fuelType |-> inputs.fuel.type, fuelQuantity |-> inputs.fuel.quantity,
   pressure |-> inputs.controlSettings.pressure]

\* the inputs of the j-th submit
Submitted(j) == journal[2 * j - 1].arg

\* C26: on every submit the form first calls onSubmit, which computes and
\* stores the output, and then addActivity once, with a message built from
\* the fuel type, fuel quantity and pressure of the inputs it submitted; so
\* after k submits the page has called boiler k times, output is the result
\* for the inputs of the last one, and the activities are the messages of
\* the last min(k, 4) submits, the newest first.
C26_SubmitSequence ==
  /\ Len(journal) = 2 * submits
  /\ simulations = submits
  /\ \A j \in 1..submits :
       /\ journal[2 * j - 1].prop = "onSubmit"
       /\ journal[2 * j].prop = "addActivity"
       /\ journal[2 * j].arg = MessageFor(Submitted(j))
  /\ submits > 0 =>
       /\ last.args = Submitted(submits)
       /\ output = last.frame.return
  /\ Len(activities) = IF submits < 4 THEN submits ELSE 4
  /\ \A k \in 1..Len(activities) :
       activities[k] = MessageFor(Submitted(submits + 1 - k))

\* five submits, the first with other inputs than any of the four that are
\* listed, and the last two different
C26_Witness ==
  /\ submits = 5
  /\ simulations = 5
  /\ \A k \in 1..4 : activities[k] # MessageFor(Submitted(1))
  /\ Submitted(5).fuel.quantity # Submitted(4).fuel.quantity
  /\ Submitted(5).controlSettings.pressure # Submitted(3).controlSettings.pressure
  /\ output = last.frame.return

\* what holds of output and of what is shown in every state
OutputShown ==
  /\ output = Null <=> submits = 0
  /\ view.visualization # Null <=> output # Null
  /\ output # Null =>
       /\ last.args = Submitted(submits)
       /\ output = last.frame.return
       /\ view.visualization = Visualization(output)

\* C27: output is null initially, is not null after the first submit and is
\* never null again; BoilerVisualization is rendered if and only if output is
\* not null, and shows the result of the most recent submit.
C27_OutputPresence ==
  /\ output = Null
  /\ []OutputShown
  /\ [][output # Null => output' # Null]_vars

\* after a submit with fuel and one with none, the page shows the result of
\* the one with none: no steam, and no efficiency to show
C27_Witness ==
  /\ submits = 2
  /\ Submitted(1).fuel.quantity = Num(1000)
  /\ Submitted(2).fuel.quantity = Num(0)
  /\ output # Null
  /\ IsZero(output.steam.flowRate)
  /\ view.visualization # Null
  /\ view.visualization.stats.flowRate = [text |-> "fixed", digits |-> 2, units |-> 0]

\* 1000 * steam.flowRate, the usable heat of the Efficiency stat
StatUsableHeat(o) == FMul(o.steam.flowRate, Num(1000))

\* the result shown is one for no fuel
ZeroFuelShown ==
  /\ output # Null
  /\ IsZero(output.steam.flowRate)
  /\ IsZero(output.wasteHeat)

\* C28: the Efficiency stat is computed from the output alone, as the usable
\* heat 1000 * steam.flowRate over the sum of it and wasteHeat, times 100,
\* shown to one decimal, and not from params.efficiency: for the form's
\* inputs it is 86.9 with params.efficiency 0.9.  For a zero-fuel result
\* (flowRate 0 and wasteHeat 0) the denominator is zero, the quotient is not
\* a number and "NaN" is what is shown: nothing is raised.
C28_DisplayedEfficiency ==
  output # Null =>
    /\ view.visualization.stats.efficiency =
         ToFixed(FMul(FDiv(StatUsableHeat(output),
                           FAdd(StatUsableHeat(output), output.wasteHeat)),
                      Num(100)), 1)
    /\ last.args = [ScenarioA EXCEPT !.params = Undefined] =>
         /\ view.visualization.stats.efficiency =
              [text |-> "fixed", digits |-> 1, units |-> 869]
         /\ last.frame.params.efficiency = N0_9
    /\ ZeroFuelShown =>
         /\ IsZero(FAdd(StatUsableHeat(output), output.wasteHeat))
         /\ view.visualization.stats.efficiency = [text |-> "NaN"]
         /\ DOMAIN view.visualization =
              {"energyData", "flueGasCompositionData", "emissionsData", "stats"}

C28_Witness ==
  /\ ZeroFuelShown
  /\ last.args.fuel.quantity = Num(0)
  /\ view.visualization.stats.efficiency = [text |-> "NaN"]
  /\ view.visualization.energyData[1].value = Num(0)
  /\ view.visualization.stats.pressure = Num(100)

StylesCreated ==
  /\ last # NoCall
  /\ "stage" \in DOMAIN last
  /\ last.stage = "createResponsiveStyles"

\* a call with the property "padding" and no transform
Padding(value) == [property |-> "padding", value |-> value, transform |-> Undefined]

\* the object with the entries es
Obj(es) == [k |-> "object", entries |-> es]

Rem == [k |-> "string", s |-> "1rem"]

Three == [k |-> "int", n |-> 3]

\* what the calls return whose text is written out here
StyleExamples ==
  LET x == last.args
      css == last.frame.return
  IN  /\ x = Padding(Obj(<<[key |-> "sm", val |-> Rem], [key |-> "md", val |-> Three]>>))
           => css = "@media (min-width: 640px) { padding: 1rem; }\n"
                      \o "@media (min-width: 768px) { padding: 3; }"
      /\ x = Padding(Obj(<<[key |-> "md", val |-> Three], [key |-> "sm", val |-> Rem]>>))
           => css = "@media (min-width: 768px) { padding: 3; }\n"
                      \o "@media (min-width: 640px) { padding: 1rem; }"
      /\ x = Padding(Obj(<<[key |-> "xs", val |-> Rem]>>))
           => css = "@media (min-width: undefined) { padding: 1rem; }"
      /\ x = Padding(Obj(<<>>)) => css = ""
      /\ x = Padding(Rem) => css = "padding: 1rem;"
      /\ x = Padding(Null) => css = "padding: null;"
      /\ x = [property |-> "grid-template-columns", value |-> Three,
              transform |-> ColumnsTransform]
           => css = "grid-template-columns: repeat(3, 1fr);"
      /\ x = [property |-> "grid-template-columns",
              value |-> Obj(<<[key |-> "md", val |-> Three]>>),
              transform |-> ColumnsTransform]
           => css = "@media (min-width: 768px) "
                      \o "{ grid-template-columns: repeat(3, 1fr); }"

\* the rules for the entries of an object value, one an entry, in their order
RulesByEntry ==
  LET x == last.args
      fr == last.frame
  IN  x.value.k = "object" =>
        /\ Len(fr.rules) = Len(x.value.entries)
        /\ \A i \in 1..Len(fr.rules) :
             \E width \in {"640px", "768px", "undefined"} :
               /\ width = "undefined" <=> x.value.entries[i].key = "xs"
               /\ width = "640px" <=> x.value.entries[i].key = "sm"
               /\ \E text \in {"1rem", "3", "repeat(3, 1fr)"} :
                    /\ text = "repeat(3, 1fr)" <=>
                         (x.transform # Undefined /\ x.value.entries[i].val = Three)
                    /\ text = "1rem" <=> x.value.entries[i].val = Rem
                    /\ fr.rules[i] = "@media (min-width: " \o width \o ") { "
                                       \o x.property \o ": " \o text \o "; }"
        /\ fr.return = Join(fr.rules, "\n")

\* C29 (as amended): for a non-null object value createResponsiveStyles
\* returns one rule "@media (min-width: <width>) { property: value; }" per
\* entry, in the order of the entries, joined by newlines, <width> being
\* what the breakpoints table has for the entry's key; for any other value
\* it returns the single declaration "property: value;".  Each ends its
\* declaration with a semicolon.  The transform is applied to each value when
\* it is given and String(value) is used otherwise, and a key that is not in
\* the table gives a rule with the width "undefined", not an error.
C29_ResponsiveStyles ==
  StylesCreated =>
    /\ RulesByEntry
    /\ StyleExamples
    /\ last.args.value.k # "object" =>
         \E text \in {"1rem", "3", "repeat(3, 1fr)", "null"} :
           /\ text = "repeat(3, 1fr)" <=>
                (last.args.transform # Undefined /\ last.args.value = Three)
           /\ text = "1rem" <=> last.args.value = Rem
           /\ text = "null" <=> last.args.value = Null
           /\ last.frame.return = last.args.property \o ": " \o text \o ";"

\* an object with a key the table does not have, after one it has
C29_Witness ==
  /\ StylesCreated
  /\ last.args.value = Obj(<<[key |-> "md", val |-> Three], [key |-> "xs", val |-> Rem]>>)
  /\ last.args.transform = ColumnsTransform
  /\ last.args.property = "grid-template-columns"
  /\ last.frame.return =
       "@media (min-width: 768px) { grid-template-columns: repeat(3, 1fr); }\n"
         \o "@media (min-width: undefined) { grid-template-columns: 1rem; }"

\* C29 as stated: for a scalar value the single declaration "property: value"
\* is returned, and for an object value one rule per entry, in the order of the
\* entries, joined by newlines.
C29_AsStated ==
  StylesCreated =>
    /\ last.args.value.k = "object" =>
         /\ Len(last.frame.rules) = Len(last.args.value.entries)
         /\ last.frame.return = Join(last.frame.rules, "\n")
    /\ last.args.value.k # "object" =>
         last.frame.return = last.args.property \o ": "
                               \o CssValue(last.args.transform, last.args.value)

=============================================================================
